---- MODULE Spec2Model ----
(***************************************************************************)
(* yLab: the yDev device registry / dispatch layer (yDev.c) and the 25Q    *)
(* SPI NOR flash driver (yDev_25q.c), and the ring queue of yLib           *)
(* (yLib_ring.c), modelled from the C sources.                             *)
(*                                                                         *)
(* Specifications of this module                                           *)
(*   SpecDisp  the dispatch layer over a link-time table of operation      *)
(*             records whose driver functions are opaque                   *)
(*   SpecWait  yDev25q_WaitBusy step by step against a chip and the clock  *)
(*             (SpecWaitFair: the same with a clock that keeps ticking)    *)
(*   SpecErase yDev25q_Erase, one action per pass of its loop              *)
(*             (SpecEraseFair: the same with passes that keep being taken) *)
(*   SpecProbe HandleStructInit / Init / Deinit / ReadJedecId against      *)
(*             chips of several ids                                        *)
(*   SpecFlash chip erase, Write and Read as whole calls against a chip    *)
(*             with a memory array                                         *)
(*   SpecRead  yDev_25q_Read step by step, one action per captured byte,   *)
(*             with a clock that may advance                               *)
(*   SpecUse   Write, Read and Ioctl as whole calls on an erased chip      *)
(*   SpecAbort Write and Erase pass by pass, any wait or transfer of a     *)
(*             pass failing                                                *)
(*   SpecShare yDevInitStatic from two execution contexts on separate      *)
(*             handles, interleaved step by step                           *)
(*   SpecClock the byte loop of yDev_25q_Read against the SPI peripheral,  *)
(*             one register access per step                                *)
(*   SpecLife  one handle from yDev25qHandleStructInit on: Init, Deinit,   *)
(*             Read, Write and chip erase in any order                     *)
(*   SpecRing  the ring queue of yLib_ring.c, one caller                   *)
(*   SpecMpmc  ylib_ring_mp_enqueue / ylib_ring_mc_dequeue from two        *)
(*             producers and two consumers, one memory access per step     *)
(*             (SpecMpmcAtomic: with an uninterrupted compare-exchange)    *)
(***************************************************************************)
EXTENDS Integers, Sequences, FiniteSets, TLC

(***************************************************************************)
(* Fixed-width arithmetic                                                  *)
(***************************************************************************)
U16 == 65536

\* A size_t of the 32-bit targets is held as two 16-bit limbs, value
\* hi * 2^16 + lo (the model checker's integers end at 2^31 - 1).
SizeT(n) == [hi |-> n \div U16, lo |-> n % U16]

\* (uint16_t)s : the conversion made when a size_t is passed to a driver's
\* read/write function pointer (yDev.h:168,184)
ToU16(s) == s.lo

\* (size_t)x for an int32_t x : -1 becomes 0xFFFFFFFF
ToSizeT(x) == [hi |-> (x \div U16) % U16, lo |-> x % U16]

\* a <= b on size_t
SizeLe(a, b) == a.hi < b.hi \/ (a.hi = b.hi /\ a.lo <= b.lo)

(***************************************************************************)
(* yDev.h : status codes, type tags, error bits                            *)
(***************************************************************************)
YDEV_OK == "YDEV_OK"
YDEV_ERROR == "YDEV_ERROR"
YDEV_TIMEOUT == "YDEV_TIMEOUT"
YDEV_INVALID_PARAM == "YDEV_INVALID_PARAM"
YDEV_NOT_SUPPORTED == "YDEV_NOT_SUPPORTED"
YDEV_DEVICE_NOT_FOUND == "YDEV_DEVICE_NOT_FOUND"

YDEV_TYPE_GPIO == "YDEV_TYPE_GPIO"
YDEV_TYPE_USART == "YDEV_TYPE_USART"
YDEV_TYPE_25Q == "YDEV_TYPE_25Q"
YDEV_TYPE_DMA == "YDEV_TYPE_DMA"
YDEV_TYPE_MAX == "YDEV_TYPE_MAX"

YDEV_ERRNO_NO_ERROR == 0
YDEV_ERRNO_NOT_FOUND == 1

\* dev_handle->timeOutMs = 10 in yDevInitStatic
DefaultTimeOutMs == 10

NULL == "NULL"

(***************************************************************************)
(* State                                                                   *)
(***************************************************************************)
VARIABLES
    ops,          \* the records linked into section .ydev_ops, in link order
    handle,       \* the caller's handle (base fields; driver fields follow)
    ret,          \* the last public call: [fn, args, val]
    calls,        \* driver functions invoked by the last public call, with
                  \* the base handle they were entered with
    scanned,      \* number of table records the last public call compared
    chip,         \* the flash chip on the bus
    bus,          \* what the last public call did on the SPI bus, in order
    ydev_time_ms, \* static size_t ydev_time_ms (yDev.c:62)
    loc           \* position and locals of a function modelled step by step

dispVars == <<ops, handle, ret, calls, scanned>>
envVars == <<chip, bus, ydev_time_ms, loc>>
vars == <<ops, handle, ret, calls, scanned, chip, bus, ydev_time_ms, loc>>

(***************************************************************************)
(* Bounds of the dispatch model                                            *)
(***************************************************************************)
MaxOps == 2          \* records linked into the table
MaxReq == 1          \* requested sizes are 0..MaxReq and 2^16 + (0..MaxReq)

\* the end marker ydev_end_ops, which follows the last record
ydev_end_ops ==
    [type |-> YDEV_TYPE_MAX, init |-> NULL, deinit |-> NULL,
     read |-> NULL, write |-> NULL, ioctl |-> NULL]

\* a record exported by YDEV_OPS_EXPORT_EX whose functions are all present
FullOps(t) ==
    [type |-> t, init |-> "init", deinit |-> "deinit",
     read |-> "read", write |-> "write", ioctl |-> "ioctl"]

\* the records a table of the dispatch model is built from: every function
\* present, the two life-cycle functions null, or the three transfer
\* functions null
StubRecords ==
    { FullOps(t) : t \in {YDEV_TYPE_GPIO, YDEV_TYPE_USART} }
    \cup { [FullOps(YDEV_TYPE_USART) EXCEPT !.init = NULL, !.deinit = NULL],
           [FullOps(YDEV_TYPE_USART) EXCEPT !.read = NULL, !.write = NULL,
                                            !.ioctl = NULL] }

SeqsUpTo(S, n) == UNION { [1..k -> S] : k \in 0..n }

StubTables == SeqsUpTo(StubRecords, MaxOps)

\* (&ydev_start_ops) + 1 + index : the record a handle's index addresses.
\* One past the last record lies the end marker.
OpsAt(index) ==
    IF index < Len(ops) THEN ops[index + 1] ELSE ydev_end_ops

\* position of the first record whose tag equals type, or -1
\* a scan that keeps going after a hit and so ends on the last record tagged
\* type
LastMatch(type) ==
    IF \E i \in 1..Len(ops) : ops[i].type = type
    THEN (CHOOSE i \in 1..Len(ops) :
            /\ ops[i].type = type
            /\ \A j \in (i + 1)..Len(ops) : ops[j].type # type) - 1
    ELSE -1

FirstMatch(type) ==
    IF \E i \in 1..Len(ops) : ops[i].type = type
    THEN (CHOOSE i \in 1..Len(ops) :
            /\ ops[i].type = type
            /\ \A j \in 1..(i - 1) : ops[j].type # type) - 1
    ELSE -1

BaseOf(h) == [index |-> h.index, timeOutMs |-> h.timeOutMs, errno |-> h.errno]

\* one driver invocation as recorded in calls
Call(index, fn, h, arg) == [index |-> index, fn |-> fn, base |-> BaseOf(h), arg |-> arg]

(***************************************************************************)
(* yDevHandleStructInit (yDev.c:289)                                       *)
(***************************************************************************)
yDevHandleStructInit(h) == [h EXCEPT !.index = 0, !.timeOutMs = 0]

(***************************************************************************)
(* An opaque driver: its init returns a status and may record an error     *)
(* bit, its read/write return an int32 count or -1.                        *)
(***************************************************************************)
StubInitOutcomes == { [status |-> YDEV_OK, errno |-> 0], [status |-> YDEV_ERROR, errno |-> 2] }
StubStatus == {YDEV_OK, YDEV_ERROR}
StubCounts(size) == {-1, 0, size}

(***************************************************************************)
(* yDevInitStatic (yDev.c:90-126)                                          *)
(* cfgNull / hNull : the caller passed NULL; type : config->type;          *)
(* out : what the driver's init does when it is reached                    *)
(***************************************************************************)
InitMatched(h, idx) ==
    [h EXCEPT !.index = idx, !.timeOutMs = DefaultTimeOutMs, !.errno = YDEV_ERRNO_NO_ERROR]

InitNoMatchStatus == YDEV_ERROR

\* yDevInitStatic leaving the scan position in the handle when no record
\* matches
yDevInitStatic_IndexAfterScan(cfgNull, hNull, type, out) ==
    IF cfgNull \/ hNull
    THEN [h |-> handle, val |-> YDEV_INVALID_PARAM, calls |-> <<>>, scanned |-> 0]
    ELSE LET idx == FirstMatch(type) IN
         IF idx >= 0
         THEN LET h1 == InitMatched(handle, idx) IN
              IF OpsAt(idx).init # NULL
              THEN [h |-> [h1 EXCEPT !.errno = out.errno],
                    val |-> out.status,
                    calls |-> <<Call(idx, "init", h1, type)>>,
                    scanned |-> idx + 1]
              ELSE [h |-> h1, val |-> YDEV_NOT_SUPPORTED, calls |-> <<>>,
                    scanned |-> idx + 1]
         ELSE [h |-> [handle EXCEPT !.errno = YDEV_ERRNO_NOT_FOUND,
                                    !.index = Len(ops)],
               val |-> InitNoMatchStatus, calls |-> <<>>, scanned |-> Len(ops)]

\* yDevInitStatic testing only the handle pointer
yDevInitStatic_HandleCheckOnly(cfgNull, hNull, type, out) ==
    IF hNull
    THEN [h |-> handle, val |-> YDEV_INVALID_PARAM, calls |-> <<>>, scanned |-> 0]
    ELSE LET idx == FirstMatch(type) IN
         IF idx >= 0
         THEN LET h1 == InitMatched(handle, idx) IN
              IF OpsAt(idx).init # NULL
              THEN [h |-> [h1 EXCEPT !.errno = out.errno], val |-> out.status,
                    calls |-> <<Call(idx, "init", h1, type)>>, scanned |-> idx + 1]
              ELSE [h |-> h1, val |-> YDEV_NOT_SUPPORTED, calls |-> <<>>,
                    scanned |-> idx + 1]
         ELSE [h |-> [handle EXCEPT !.errno = YDEV_ERRNO_NOT_FOUND],
               val |-> InitNoMatchStatus, calls |-> <<>>, scanned |-> Len(ops)]

yDevInitStatic(cfgNull, hNull, type, out) ==
    IF cfgNull \/ hNull
    THEN [h |-> handle, val |-> YDEV_INVALID_PARAM, calls |-> <<>>, scanned |-> 0]
    ELSE LET idx == FirstMatch(type) IN
         IF idx >= 0
         THEN LET h1 == InitMatched(handle, idx) IN
              IF OpsAt(idx).init # NULL
              THEN [h |-> [h1 EXCEPT !.errno = out.errno],
                    val |-> out.status,
                    calls |-> <<Call(idx, "init", h1, type)>>,
                    scanned |-> idx + 1]
              ELSE [h |-> h1, val |-> YDEV_NOT_SUPPORTED, calls |-> <<>>,
                    scanned |-> idx + 1]
         ELSE [h |-> [handle EXCEPT !.errno = YDEV_ERRNO_NOT_FOUND],
               val |-> InitNoMatchStatus, calls |-> <<>>, scanned |-> Len(ops)]

(***************************************************************************)
(* yDevDeinitStatic (yDev.c:136-158)                                       *)
(***************************************************************************)
yDevDeinitStatic(hNull, st) ==
    IF hNull
    THEN [h |-> handle, val |-> YDEV_INVALID_PARAM, calls |-> <<>>, scanned |-> 0]
    ELSE IF OpsAt(handle.index).deinit # NULL
         THEN [h |-> handle, val |-> st,
               calls |-> <<Call(handle.index, "deinit", handle, 0)>>, scanned |-> 0]
         ELSE [h |-> handle, val |-> YDEV_NOT_SUPPORTED, calls |-> <<>>, scanned |-> 0]

(***************************************************************************)
(* yDevRead / yDevWrite (yDev.c:170-226): size is a size_t, the driver     *)
(* function takes a uint16_t and returns an int32_t, the result is a       *)
(* size_t. cnt(n) is what the driver returns when asked for n bytes.       *)
(***************************************************************************)
NullPtrCount == SizeT(0)

\* yDevRead / yDevWrite calling through the record's pointer without testing it
yDevReadWrite_NoPointerTest(fn, hNull, bufNull, size, cnt) ==
    IF hNull \/ bufNull \/ size = SizeT(0)
    THEN [h |-> handle, val |-> SizeT(0), calls |-> <<>>, scanned |-> 0]
    ELSE [h |-> handle, val |-> ToSizeT(cnt),
          calls |-> <<Call(handle.index, fn, handle, ToU16(size))>>, scanned |-> 0]

yDevReadWrite(fn, hNull, bufNull, size, cnt) ==
    IF hNull \/ bufNull \/ size = SizeT(0)
    THEN [h |-> handle, val |-> SizeT(0), calls |-> <<>>, scanned |-> 0]
    ELSE IF OpsAt(handle.index)[fn] # NULL
         THEN [h |-> handle, val |-> ToSizeT(cnt),
               calls |-> <<Call(handle.index, fn, handle, ToU16(size))>>, scanned |-> 0]
         ELSE [h |-> handle, val |-> NullPtrCount, calls |-> <<>>, scanned |-> 0]

(***************************************************************************)
(* yDevIoctl (yDev.c:238-260)                                              *)
(***************************************************************************)
yDevIoctl(hNull, cmd, st) ==
    IF hNull
    THEN [h |-> handle, val |-> YDEV_INVALID_PARAM, calls |-> <<>>, scanned |-> 0]
    ELSE IF OpsAt(handle.index).ioctl # NULL
         THEN [h |-> handle, val |-> st,
               calls |-> <<Call(handle.index, "ioctl", handle, cmd)>>, scanned |-> 0]
         ELSE [h |-> handle, val |-> YDEV_NOT_SUPPORTED, calls |-> <<>>, scanned |-> 0]

(***************************************************************************)
(* SpecDisp : one handle, any sequence of public calls, any table          *)
(***************************************************************************)
Types == {YDEV_TYPE_GPIO, YDEV_TYPE_USART, YDEV_TYPE_25Q}
ReqSizes == { SizeT(k) : k \in 0..MaxReq } \cup { SizeT(U16 + k) : k \in 0..MaxReq }
IoctlCmds == {32768, 32769}

\* the arguments of a public call; the fields a call does not take keep
\* these values
NoArgs ==
    [hNull |-> FALSE, cfgNull |-> FALSE, bufNull |-> FALSE,
     type |-> YDEV_TYPE_MAX, size |-> SizeT(0), cmd |-> 0]

NoRet == [fn |-> "none", args |-> NoArgs, val |-> 0]

Apply(fn, args, r) ==
    /\ handle' = r.h
    /\ ret' = [fn |-> fn, args |-> args, val |-> r.val]
    /\ calls' = r.calls
    /\ scanned' = r.scanned
    /\ UNCHANGED <<ops, envVars>>

\* no flash chip, no bus traffic, the clock at its load-time value, no
\* function in progress
NoChip == [busy |-> FALSE, wel |-> FALSE]
Idle == [at |-> "idle"]

EnvIdle ==
    /\ chip = NoChip
    /\ bus = <<>>
    /\ ydev_time_ms = 0
    /\ loc = Idle

DispInit ==
    /\ ops \in StubTables
    /\ handle = [index |-> 0, timeOutMs |-> 0, errno |-> 0]
    /\ ret = NoRet
    /\ calls = <<>>
    /\ scanned = 0
    /\ EnvIdle

HandleStructInit ==
    /\ handle' = yDevHandleStructInit(handle)
    /\ ret' = [fn |-> "yDevHandleStructInit", args |-> NoArgs, val |-> 0]
    /\ calls' = <<>>
    /\ scanned' = 0
    /\ UNCHANGED <<ops, envVars>>

DInit ==
    \E cfgNull \in BOOLEAN, hNull \in BOOLEAN, type \in Types, out \in StubInitOutcomes :
        Apply("yDevInitStatic",
              [NoArgs EXCEPT !.hNull = hNull, !.cfgNull = cfgNull, !.type = type],
              yDevInitStatic(cfgNull, hNull, type, out))

DDeinit ==
    \E hNull \in BOOLEAN, st \in StubStatus :
        Apply("yDevDeinitStatic", [NoArgs EXCEPT !.hNull = hNull],
              yDevDeinitStatic(hNull, st))

DRead ==
    \E hNull \in BOOLEAN, bufNull \in BOOLEAN, size \in ReqSizes :
        \E cnt \in StubCounts(ToU16(size)) :
            Apply("yDevRead",
                  [NoArgs EXCEPT !.hNull = hNull, !.bufNull = bufNull, !.size = size],
                  yDevReadWrite("read", hNull, bufNull, size, cnt))

DWrite ==
    \E hNull \in BOOLEAN, bufNull \in BOOLEAN, size \in ReqSizes :
        \E cnt \in StubCounts(ToU16(size)) :
            Apply("yDevWrite",
                  [NoArgs EXCEPT !.hNull = hNull, !.bufNull = bufNull, !.size = size],
                  yDevReadWrite("write", hNull, bufNull, size, cnt))

DIoctl ==
    \E hNull \in BOOLEAN, cmd \in IoctlCmds, st \in StubStatus :
        Apply("yDevIoctl", [NoArgs EXCEPT !.hNull = hNull, !.cmd = cmd],
              yDevIoctl(hNull, cmd, st))

DispNext == HandleStructInit \/ DInit \/ DDeinit \/ DRead \/ DWrite \/ DIoctl

SpecDisp == DispInit /\ [][DispNext]_vars

(***************************************************************************)
(* Claims about the dispatch layer (checked under SpecDisp)                *)
(***************************************************************************)

\* the table holds a record tagged t
HasTag(t) == \E i \in 1..Len(ops) : ops[i].type = t

\* the last call passed a handle, a buffer and a non-zero size
RealTransfer == ~ret.args.hNull /\ ~ret.args.bufNull /\ ret.args.size # SizeT(0)

\* C5: when the record addressed by handle.index has a null read, write or
\* ioctl pointer, yDevRead and yDevWrite return 0 and yDevIoctl returns
\* YDEV_NOT_SUPPORTED, no driver function is invoked and the handle is left
\* as it was.
C5_NullPointerDispatch ==
    [][ /\ (ret'.fn = "yDevRead" /\ ~ret'.args.hNull /\ OpsAt(handle.index).read = NULL)
            => (ret'.val = SizeT(0) /\ calls' = <<>> /\ handle' = handle)
        /\ (ret'.fn = "yDevWrite" /\ ~ret'.args.hNull /\ OpsAt(handle.index).write = NULL)
            => (ret'.val = SizeT(0) /\ calls' = <<>> /\ handle' = handle)
        /\ (ret'.fn = "yDevIoctl" /\ ~ret'.args.hNull /\ OpsAt(handle.index).ioctl = NULL)
            => (ret'.val = YDEV_NOT_SUPPORTED /\ calls' = <<>> /\ handle' = handle)
      ]_vars

\* C5 witness: a yDevRead with a handle, a buffer and a non-zero size has met
\* a linked record (not the end marker) whose read pointer is null.
C5_Witness ==
    /\ ret.fn = "yDevRead" /\ RealTransfer
    /\ handle.index < Len(ops)
    /\ OpsAt(handle.index).read = NULL
    /\ ret.val = SizeT(0)

\* C6: a matching yDevInitStatic enters the init function of the FIRST record
\* tagged config.type, with index = that position, timeOutMs = 10 and errno = 0
\* already stored, and leaves that index in the handle; every
\* Deinit/Read/Write/Ioctl that reaches a driver enters the record at
\* handle.index, compares no record and leaves the index as it was.
C6_FirstMatchThenDirectIndex ==
    [][ /\ (ret'.fn = "yDevInitStatic" /\ calls' # <<>>)
            => LET c == calls'[1] IN
               /\ c.fn = "init"
               /\ c.index < Len(ops)
               /\ ops[c.index + 1].type = ret'.args.type
               /\ \A j \in 1..c.index : ops[j].type # ret'.args.type
               /\ c.base = [index |-> c.index, timeOutMs |-> 10, errno |-> 0]
               /\ handle'.index = c.index
        /\ (ret'.fn \in {"yDevDeinitStatic", "yDevRead", "yDevWrite", "yDevIoctl"})
            => /\ scanned' = 0
               /\ handle'.index = handle.index
               /\ calls' # <<>> => calls'[1].index = handle.index
      ]_vars

\* C6 witness: the table holds the same tag twice, Init has entered the first
\* of the two, and a later Read is forwarded there.
C6_Witness ==
    /\ Len(ops) = 2 /\ ops[1].type = ops[2].type /\ ops[1] # ops[2]
    /\ ret.fn = "yDevRead" /\ calls # <<>> /\ calls[1].index = 0
    /\ calls[1].base.timeOutMs = 10

\* C7 (as claimed): yDevInitStatic returns the status NotFound when no record
\* is tagged config.type, NotSupported when the matched record has no init;
\* no driver function is invoked in either case.
C7_NotFoundStatus ==
    (ret.fn = "yDevInitStatic" /\ ~ret.args.hNull /\ ~ret.args.cfgNull)
        => /\ ~HasTag(ret.args.type)
                => (ret.val = YDEV_DEVICE_NOT_FOUND /\ calls = <<>>)
           /\ (HasTag(ret.args.type) /\ OpsAt(FirstMatch(ret.args.type)).init = NULL)
                => (ret.val = YDEV_NOT_SUPPORTED /\ calls = <<>>)

\* C8: yDevInitStatic with a null config or a null handle, and
\* yDevDeinitStatic / yDevIoctl with a null handle, return YDEV_INVALID_PARAM,
\* compare no record, invoke no driver function and change no handle.
C8_NullArguments ==
    [][ ( \/ (ret'.fn = "yDevInitStatic" /\ (ret'.args.cfgNull \/ ret'.args.hNull))
          \/ (ret'.fn \in {"yDevDeinitStatic", "yDevIoctl"} /\ ret'.args.hNull) )
        => /\ ret'.val = YDEV_INVALID_PARAM
           /\ scanned' = 0
           /\ calls' = <<>>
           /\ handle' = handle
      ]_vars

\* C8 witness: Init was given a null config and a real handle while the table
\* does hold a record of the type a scan would have looked for.
C8_Witness ==
    /\ ret.fn = "yDevInitStatic" /\ ret.args.cfgNull /\ ~ret.args.hNull
    /\ HasTag(ret.args.type)
    /\ OpsAt(FirstMatch(ret.args.type)).init # NULL
    /\ ret.val = YDEV_INVALID_PARAM

(***************************************************************************)
(* yDev_25q.h / yDev_25q.c : constants of the flash driver                 *)
(***************************************************************************)
\* yDrvStatus_t values returned through yDevStatus_t: the two enumerations
\* agree on 0..6, so a yDrvStatus_t converts to the yDevStatus_t of the
\* same number
YDRV_OK == YDEV_OK
YDRV_ERROR == YDEV_ERROR
YDRV_TIMEOUT == YDEV_TIMEOUT
YDRV_INVALID_PARAM == YDEV_INVALID_PARAM

\* yDev25qType_t
YDEV_25Q_TYPE_W25Q16 == 0
YDEV_25Q_TYPE_UNKNOWN == 4

JedecId(m, t, c) == m * 65536 + t * 256 + c

\* static const uint32_t IdentifyChip25q[YDEV_25Q_TYPE_UNKNOWN]
\* 0xEF4016, 0xEF4017, 0xEF4018, 0xEF4019 (a TLA+ sequence starts at 1)
IdentifyChip25q ==
    << JedecId(239, 64, 22), JedecId(239, 64, 23),
       JedecId(239, 64, 24), JedecId(239, 64, 25) >>

YDEV_25Q_STATUS_W25Q_BUSY == 1
YDEV_25Q_CMD_READ_STATUS_REG1 == 5

YDEV_25Q_TIMEOUT_PAGE_PROGRAM == 5
YDEV_25Q_TIMEOUT_SECTOR_ERASE == 400
YDEV_25Q_TIMEOUT_BLOCK_ERASE_64K == 2000

\* x & 0xFF0000 for a 24-bit x, as the manufacturer byte
Manufacturer(x) == (x \div 65536) % 256

\* x & mask for a one-bit mask
BitSet(x, mask) == (x \div mask) % 2 = 1

(***************************************************************************)
(* Geometry, commands and error bits (yDev_25q.h)                          *)
(***************************************************************************)
YDEV_25Q_PAGE_SIZE == 256
YDEV_25Q_SECTOR_SIZE == 4096
YDEV_25Q_BLOCK_SIZE == 65536

YDEV_25Q_CMD_WRITE_ENABLE == 6
YDEV_25Q_CMD_SECTOR_ERASE == 32
YDEV_25Q_CMD_BLOCK_ERASE == 216

YDEV_25Q_ERRNO_INVALID_ADDRESS == 16
YDEV_25Q_ERRNO_SPI_ERROR == 64
YDEV_25Q_ERRNO_TIMEOUT == 128

\* 2^24: a command carries three address bytes
AddressSpace == 16777216

(***************************************************************************)
(* What a call does on the bus, as a sequence of events                    *)
(***************************************************************************)
\* yDrvSpiCsControl(&spi_handle, state): state 0 drives the pin high,
\* any other state drives it low (yDrv_spi.h:254-271)
Cs(state) == [e |-> "cs", v |-> state]

\* a completed yDev25q_Spi_Transfer of the bytes d
Tx(d) == [e |-> "tx", d |-> d, n |-> Len(d)]

\* a yDev25q_WaitBusy with ceiling ms that returned st
Wait(ms, st) == [e |-> "wait", ms |-> ms, st |-> st]

\* cmd[1] = (a >> 16) & 0xFF; cmd[2] = (a >> 8) & 0xFF; cmd[3] = a & 0xFF
AddressBytes(a) == << (a \div 65536) % 256, (a \div 256) % 256, a % 256 >>

\* the address a chip decodes from the three bytes after an opcode
WireAddress(d) == d[2] * 65536 + d[3] * 256 + d[4]

\* x & ~(unit - 1) for a power of two unit
AlignDown(x, unit) == x - (x % unit)

(***************************************************************************)
(* yDev_25q_Init (yDev_25q.c:281-292): capacity from the id's low byte     *)
(***************************************************************************)
RECURSIVE Pow2(_)
Pow2(k) == IF k = 0 THEN 1 ELSE 2 * Pow2(k - 1)

CapacityOf(jedec_id) ==
    LET capacity_id == jedec_id % 256 IN
    IF capacity_id >= 16 /\ capacity_id <= 32
    THEN Pow2(capacity_id)
    ELSE 2 * 1024 * 1024

\* a handle as a successful Init against table entry ct leaves it
InitialisedHandle(ct) ==
    [index |-> 0, timeOutMs |-> DefaultTimeOutMs, errno |-> 0,
     chip_type |-> ct, size |-> CapacityOf(IdentifyChip25q[ct + 1]),
     address |-> SizeT(0), spi |-> [instance |-> "SPI1", enabled |-> TRUE]]

(***************************************************************************)
(* The chip as the driver sees it through status register 1:               *)
(* bit 0 BUSY, bit 1 WEL                                                   *)
(***************************************************************************)
StatusReg1(c) == (IF c.busy THEN 1 ELSE 0) + (IF c.wel THEN 2 ELSE 0)

(***************************************************************************)
(* yDevGetTimeMS (yDev.c:272-275) and the elapsed-time tests               *)
(***************************************************************************)
yDevGetTimeMS == ydev_time_ms

\* yDevGetTimeMS() - start_time
Elapsed(start_time) == yDevGetTimeMS - start_time

(***************************************************************************)
(* yDev25q_WaitBusy (yDev_25q.c:659-689), yDev25q_ReadReg (633-650) and    *)
(* the transfer loop of yDev25q_Spi_Transfer (570-625), step by step       *)
(***************************************************************************)
MaxTime == 12        \* the clock of SpecWait stops advancing here

\* the ceilings WaitBusy is called with
WaitCeilings ==
    { YDEV_25Q_TIMEOUT_PAGE_PROGRAM, YDEV_25Q_TIMEOUT_SECTOR_ERASE,
      YDEV_25Q_TIMEOUT_BLOCK_ERASE_64K }

\* what a read past the end of IdentifyChip25q may find
OobWords == { 0, JedecId(239, 0, 0) }

\* the word the switch of WaitBusy reads for chip_type ct
ChipWord(ct, oob) ==
    IF ct < YDEV_25Q_TYPE_UNKNOWN THEN IdentifyChip25q[ct + 1] ELSE oob

\* the value yDev25q_ReadReg returns after a transfer of n bytes that
\* received rx as its second byte; a cleared result byte stands in for a
\* failed read
ReadRegZeroOnFailure(n, rx) == IF n # 2 THEN 0 ELSE rx

ReadRegResult(n, rx) == IF n # 2 THEN 255 ELSE rx

\* (status & busy_mask) == 0
ReadyStatus(status) == ~BitSet(status, YDEV_25Q_STATUS_W25Q_BUSY)

WaitBusy_Enter ==
    /\ loc.at = "idle"
    /\ \E timeout_ms \in WaitCeilings, oob \in OobWords :
          loc' = IF Manufacturer(ChipWord(handle.chip_type, oob)) = 239
                 THEN [at |-> "ReadReg", timeout_ms |-> timeout_ms,
                       start_time |-> yDevGetTimeMS, xfer_start |-> 0,
                       index |-> 0, rx |-> 0, status |-> 0, repolled |-> FALSE,
                       result |-> "none"]
                 ELSE [at |-> "done", timeout_ms |-> timeout_ms,
                       start_time |-> 0, xfer_start |-> 0,
                       index |-> 0, rx |-> 0, status |-> 0, repolled |-> FALSE,
                       result |-> YDRV_INVALID_PARAM]
    /\ UNCHANGED <<dispVars, chip, bus, ydev_time_ms>>

\* ReadReg: chip-select call, then Spi_Transfer starts its clock
ReadReg_Begin ==
    /\ loc.at = "ReadReg"
    /\ loc' = [loc EXCEPT !.at = "Transfer", !.xfer_start = yDevGetTimeMS,
                          !.index = 0, !.rx = 0]
    /\ UNCHANGED <<dispVars, chip, bus, ydev_time_ms>>

\* one pass of the loop of Spi_Transfer in which the peripheral is ready:
\* the timeout test, then one byte out and one byte in; the pass that ends
\* the transfer also runs the tail of ReadReg
Spi_Transfer_Step ==
    /\ loc.at = "Transfer"
    /\ IF Elapsed(loc.xfer_start) > handle.timeOutMs
       THEN loc' = [loc EXCEPT !.at = "Test",
                               !.status = ReadRegResult(loc.index, loc.rx)]
       ELSE LET rx == IF loc.index = 1 THEN StatusReg1(chip) ELSE 255 IN
            IF loc.index + 1 < 2
            THEN loc' = [loc EXCEPT !.index = @ + 1, !.rx = rx]
            ELSE loc' = [loc EXCEPT !.index = @ + 1, !.rx = rx,
                                    !.at = "Test",
                                    !.status = ReadRegResult(loc.index + 1, rx)]
    /\ UNCHANGED <<dispVars, chip, bus, ydev_time_ms>>

\* the test after ReadReg and the while condition
WaitBusy_Test ==
    /\ loc.at = "Test"
    /\ loc' = IF ReadyStatus(loc.status)
              THEN [loc EXCEPT !.at = "done", !.result = YDRV_OK]
              ELSE IF Elapsed(loc.start_time) <= loc.timeout_ms
                   THEN [loc EXCEPT !.at = "ReadReg", !.repolled = TRUE]
                   ELSE [loc EXCEPT !.at = "done", !.result = YDRV_TIMEOUT]
    /\ UNCHANGED <<dispVars, chip, bus, ydev_time_ms>>

WaitBusy_Return ==
    /\ loc.at = "done"
    /\ loc' = Idle
    /\ UNCHANGED <<dispVars, chip, bus, ydev_time_ms>>

\* the chip ends the program or erase it was busy with
ChipFinish ==
    /\ chip.busy
    /\ chip' = [chip EXCEPT !.busy = FALSE, !.wel = FALSE]
    /\ UNCHANGED <<dispVars, bus, ydev_time_ms, loc>>

\* between two calls of WaitBusy the driver has sent a write enable or a
\* program / erase command
ChipCommand ==
    /\ loc.at = "idle"
    /\ ~chip.busy
    /\ \E b \in BOOLEAN : chip' = [chip EXCEPT !.busy = b, !.wel = TRUE]
    /\ UNCHANGED <<dispVars, bus, ydev_time_ms, loc>>

\* a time source that counts milliseconds into ydev_time_ms
Tick ==
    /\ ydev_time_ms < MaxTime
    /\ ydev_time_ms' = ydev_time_ms + 1
    /\ UNCHANGED <<dispVars, chip, bus, loc>>

\* the handles WaitBusy is entered with: initialised against a table entry,
\* or never identified
FlashHandles ==
    { InitialisedHandle(ct) :
        ct \in YDEV_25Q_TYPE_W25Q16..(YDEV_25Q_TYPE_UNKNOWN - 1) }
    \cup { [InitialisedHandle(0) EXCEPT !.chip_type = YDEV_25Q_TYPE_UNKNOWN,
                                        !.size = 0] }

WaitInit ==
    /\ ops = <<FullOps(YDEV_TYPE_25Q)>>
    /\ handle \in FlashHandles
    /\ ret = NoRet
    /\ calls = <<>>
    /\ scanned = 0
    /\ chip \in [busy : BOOLEAN, wel : BOOLEAN]
    /\ bus = <<>>
    /\ ydev_time_ms = 0
    /\ loc = Idle

WaitSteps ==
    \/ WaitBusy_Enter
    \/ ReadReg_Begin
    \/ Spi_Transfer_Step
    \/ WaitBusy_Test
    \/ WaitBusy_Return

\* the code as it is: nothing stores into ydev_time_ms
WaitNext == WaitSteps \/ ChipFinish \/ ChipCommand

\* the same with a running clock
WaitTickNext == WaitNext \/ Tick

SpecWait == WaitInit /\ [][WaitTickNext]_vars

\* the processor keeps executing the function it is in
SpecWaitFair == WaitInit /\ [][WaitNext]_vars /\ WF_vars(WaitSteps)

\* C3: WaitBusy returns YDRV_OK only when the status read just made was a
\* complete 2-byte transfer whose second byte had bit 0 (BUSY) clear; after
\* a short transfer it never returns YDRV_OK.
C3_ReadyOnlyAfterBusyClear ==
    (loc.at = "done" /\ loc.result = YDRV_OK)
        => (loc.index = 2 /\ loc.rx % 2 = 0)

\* C3 witness: WaitBusy has returned YDRV_OK on its second or later poll, on
\* a status byte that still had WEL set.
C3_Witness ==
    /\ loc.at = "done" /\ loc.result = YDRV_OK
    /\ loc.repolled /\ loc.rx = 2

\* C4 (as claimed): every call of WaitBusy returns, also when BUSY stays set.
C4_WaitBusyTerminates ==
    [](loc.at = "ReadReg" => <>(loc.at = "done"))

(***************************************************************************)
(* yDev25q_Erase (yDev_25q.c:812-943), one loop iteration per step         *)
(***************************************************************************)
\* a transfer that returned k, fewer than the bytes asked for
TxShort(d, k) == [e |-> "tx", d |-> SubSeq(d, 1, k), n |-> k]

\* the bus events and the outcome of one 64KB block erase at erase_address;
\* fail = 0: every step succeeds, fail = k: the k-th transfer / wait fails
BlockErase(erase_address, fail) ==
    LET wren == <<YDEV_25Q_CMD_WRITE_ENABLE>>
        cmd == <<YDEV_25Q_CMD_BLOCK_ERASE>> \o AddressBytes(erase_address)
        ms == YDEV_25Q_TIMEOUT_BLOCK_ERASE_64K
    IN  CASE fail = 1 ->
               [bus |-> <<Cs(0), TxShort(wren, 0), Cs(1)>>,
                errno |-> YDEV_25Q_ERRNO_SPI_ERROR, st |-> YDRV_ERROR]
          [] fail = 2 ->
               [bus |-> <<Cs(0), Tx(wren), Wait(ms, YDRV_TIMEOUT)>>,
                errno |-> YDEV_25Q_ERRNO_TIMEOUT, st |-> YDRV_TIMEOUT]
          [] fail = 3 ->
               [bus |-> <<Cs(0), Tx(wren), Wait(ms, YDRV_OK),
                          TxShort(cmd, 3), Cs(0)>>,
                errno |-> YDEV_25Q_ERRNO_SPI_ERROR, st |-> YDRV_ERROR]
          [] fail = 4 ->
               [bus |-> <<Cs(0), Tx(wren), Wait(ms, YDRV_OK), Tx(cmd), Cs(1),
                          Wait(ms, YDRV_TIMEOUT)>>,
                errno |-> YDEV_25Q_ERRNO_TIMEOUT, st |-> YDRV_TIMEOUT]
          [] OTHER ->
               [bus |-> <<Cs(0), Tx(wren), Wait(ms, YDRV_OK), Tx(cmd), Cs(1),
                          Wait(ms, YDRV_OK)>>,
                errno |-> 0, st |-> YDRV_OK]

\* the same for one 4KB sector erase
SectorErase(erase_address, fail) ==
    LET wren == <<YDEV_25Q_CMD_WRITE_ENABLE>>
        cmd == <<YDEV_25Q_CMD_SECTOR_ERASE>> \o AddressBytes(erase_address)
        ms == YDEV_25Q_TIMEOUT_SECTOR_ERASE
    IN  CASE fail = 1 ->
               [bus |-> <<Wait(ms, YDRV_TIMEOUT)>>,
                errno |-> YDEV_25Q_ERRNO_TIMEOUT, st |-> YDRV_TIMEOUT]
          [] fail = 2 ->
               [bus |-> <<Wait(ms, YDRV_OK), Cs(1), TxShort(wren, 0), Cs(0)>>,
                errno |-> YDEV_25Q_ERRNO_SPI_ERROR, st |-> YDRV_ERROR]
          [] fail = 3 ->
               [bus |-> <<Wait(ms, YDRV_OK), Cs(1), Tx(wren), Cs(0),
                          Cs(1), TxShort(cmd, 3), Cs(0)>>,
                errno |-> YDEV_25Q_ERRNO_SPI_ERROR, st |-> YDRV_ERROR]
          [] fail = 4 ->
               [bus |-> <<Wait(ms, YDRV_OK), Cs(1), Tx(wren), Cs(0),
                          Cs(1), Tx(cmd), Cs(0), Wait(ms, YDRV_TIMEOUT)>>,
                errno |-> YDEV_25Q_ERRNO_TIMEOUT, st |-> YDRV_TIMEOUT]
          [] OTHER ->
               [bus |-> <<Wait(ms, YDRV_OK), Cs(1), Tx(wren), Cs(0),
                          Cs(1), Tx(cmd), Cs(0), Wait(ms, YDRV_OK)>>,
                errno |-> 0, st |-> YDRV_OK]

\* remaining_size >= BLOCK_SIZE && (current_address % BLOCK_SIZE) == 0
UseBlock(current_address, remaining_size) ==
    /\ remaining_size >= YDEV_25Q_BLOCK_SIZE
    /\ current_address % YDEV_25Q_BLOCK_SIZE = 0

\* remaining_size taken as the size asked for, without the rounding to
\* whole sectors
EraseWindow_NoRounding(start_address, size) ==
    [current_address |-> AlignDown(start_address, YDEV_25Q_SECTOR_SIZE),
     remaining_size |-> size]

\* current_address and remaining_size before the loop (lines 834-840)
EraseWindow(start_address, size) ==
    LET current == AlignDown(start_address, YDEV_25Q_SECTOR_SIZE) IN
    [current_address |-> current,
     remaining_size |->
        AlignDown(start_address + size + YDEV_25Q_SECTOR_SIZE - 1,
                  YDEV_25Q_SECTOR_SIZE) - current]

\* the erase commands among bus events, as the chip decodes them
EraseUnits(events) ==
    LET IsErase(ev) ==
            /\ ev.e = "tx"
            /\ ev.n = 4
            /\ ev.d[1] \in {YDEV_25Q_CMD_SECTOR_ERASE, YDEV_25Q_CMD_BLOCK_ERASE}
        cmds == SelectSeq(events, IsErase)
    IN  [i \in 1..Len(cmds) |->
            [cmd |-> cmds[i].d[1],
             addr |-> WireAddress(cmds[i].d),
             len |-> IF cmds[i].d[1] = YDEV_25Q_CMD_BLOCK_ERASE
                     THEN YDEV_25Q_BLOCK_SIZE ELSE YDEV_25Q_SECTOR_SIZE]]

Min(a, b) == IF a < b THEN a ELSE b
Max(a, b) == IF a > b THEN a ELSE b

\* the erased area seen on the bus so far: its lowest and highest byte
\* bound, whether every unit touched the area before it, whether every
\* command address was a multiple of the sector size
NoArea == [n |-> 0, lo |-> 0, hi |-> 0, joined |-> TRUE, aligned |-> TRUE]

AddUnit(area, u) ==
    [n |-> area.n + 1,
     lo |-> IF area.n = 0 THEN u.addr ELSE Min(area.lo, u.addr),
     hi |-> IF area.n = 0 THEN u.addr + u.len ELSE Max(area.hi, u.addr + u.len),
     joined |-> area.joined /\
                (area.n = 0 \/ (u.addr <= area.hi /\ u.addr + u.len >= area.lo)),
     aligned |-> area.aligned /\ u.addr % YDEV_25Q_SECTOR_SIZE = 0]

AddUnits(area, units) ==
    IF Len(units) = 0 THEN area ELSE AddUnit(area, units[1])

Erase_Enter(start_address, size) ==
    /\ loc.at = "idle"
    /\ IF size = 0
       THEN /\ loc' = [at |-> "EraseDone", start_address |-> start_address,
                       size |-> size, current_address |-> 0,
                       remaining_size |-> 0, area |-> NoArea,
                       result |-> YDRV_INVALID_PARAM]
            /\ UNCHANGED handle
       ELSE IF start_address + size > handle.size
       THEN /\ loc' = [at |-> "EraseDone", start_address |-> start_address,
                       size |-> size, current_address |-> 0,
                       remaining_size |-> 0, area |-> NoArea,
                       result |-> YDRV_INVALID_PARAM]
            /\ handle' = [handle EXCEPT !.errno = YDEV_25Q_ERRNO_INVALID_ADDRESS]
       ELSE /\ loc' = [at |-> "EraseLoop", start_address |-> start_address,
                       size |-> size,
                       current_address |->
                           EraseWindow(start_address, size).current_address,
                       remaining_size |->
                           EraseWindow(start_address, size).remaining_size,
                       area |-> NoArea, result |-> "none"]
            /\ UNCHANGED handle
    /\ bus' = <<>>
    /\ UNCHANGED <<ops, ret, calls, scanned, chip, ydev_time_ms>>

\* one pass of the while loop, and the return when it was the last one
Erase_Iter(fail) ==
    /\ loc.at = "EraseLoop"
    /\ LET block == UseBlock(loc.current_address, loc.remaining_size)
           erase_size == IF block THEN YDEV_25Q_BLOCK_SIZE
                                  ELSE YDEV_25Q_SECTOR_SIZE
           r == IF block THEN BlockErase(loc.current_address, fail)
                         ELSE SectorErase(loc.current_address, fail)
           area == AddUnits(loc.area, EraseUnits(r.bus))
       IN  /\ bus' = r.bus
           /\ IF r.st # YDRV_OK
              THEN /\ handle' = [handle EXCEPT !.errno = r.errno]
                   /\ loc' = [loc EXCEPT !.at = "EraseDone", !.area = area,
                                         !.result = r.st]
              ELSE /\ UNCHANGED handle
                   /\ loc' = [loc EXCEPT
                         !.current_address = @ + erase_size,
                         !.remaining_size = @ - erase_size,
                         !.area = area,
                         !.at = IF loc.remaining_size - erase_size > 0
                                THEN "EraseLoop" ELSE "EraseDone",
                         !.result = IF loc.remaining_size - erase_size > 0
                                    THEN "none" ELSE YDRV_OK]
    /\ UNCHANGED <<ops, ret, calls, scanned, chip, ydev_time_ms>>

Erase_Return ==
    /\ loc.at = "EraseDone"
    /\ loc' = Idle
    /\ UNCHANGED <<dispVars, chip, bus, ydev_time_ms>>

\* start addresses and sizes Erase is entered with, besides the whole chip
EraseStarts == {0, 1, 4095, 4096, 61440, 65536, 69632}
EraseSizes == {0, 1, 4096, 4097, 65536, 131072}

EraseInit ==
    /\ ops = <<FullOps(YDEV_TYPE_25Q)>>
    /\ handle \in { InitialisedHandle(ct) :
                      ct \in YDEV_25Q_TYPE_W25Q16..(YDEV_25Q_TYPE_UNKNOWN - 1) }
    /\ ret = NoRet
    /\ calls = <<>>
    /\ scanned = 0
    /\ chip = NoChip
    /\ bus = <<>>
    /\ ydev_time_ms = 0
    /\ loc = Idle

\* Ioctl CHIP_ERASE: yDev25q_Erase(handle, 0, handle->size)
Erase_ChipErase == Erase_Enter(0, handle.size)

\* a sub-range, or a range that ends past the capacity
Erase_Range ==
    \E start_address \in EraseStarts \cup {handle.size - 4096},
       size \in EraseSizes :
        Erase_Enter(start_address, size)

\* with ydev_time_ms standing still no transfer and no wait fails
Erase_Step == Erase_Iter(0)

EraseNext == Erase_ChipErase \/ Erase_Range \/ Erase_Step \/ Erase_Return

SpecErase == EraseInit /\ [][EraseNext]_vars

\* C2 (as claimed): when Erase(start, size) with size > 0 and
\* start + size <= capacity returns YDRV_OK, the units erased on the chip
\* form one contiguous window [lo, hi) with lo and hi multiples of 4096,
\* lo <= start and hi >= start + size, and every erase command address is a
\* multiple of 4096.
C2_ErasedWindowCovers ==
    (loc.at = "EraseDone" /\ loc.result = YDRV_OK)
        => /\ loc.area.n > 0
           /\ loc.area.joined
           /\ loc.area.aligned
           /\ loc.area.lo % 4096 = 0
           /\ loc.area.hi % 4096 = 0
           /\ loc.area.lo <= loc.start_address
           /\ loc.area.hi >= loc.start_address + loc.size

(***************************************************************************)
(* Flash Init / Deinit / JEDEC identification (yDev_25q.c:196-329, 697-736)*)
(***************************************************************************)
YDEV_25Q_ERRNO_CHIP_NOT_FOUND == 256
YDEV_25Q_IOCTL_CHIP_ERASE == 33281
YDEV_25Q_IOCTL_READ_JEDEC_ID == 33289

\* the configurations Init is called with: the default one (SPI1, 8 data
\* bits), one naming no SPI instance, one with a data width outside 4..16
FlashConfigs ==
    { [spiId |-> "YDRV_SPI_1", dataBits |-> 8],
      [spiId |-> "YDRV_SPI_MAX", dataBits |-> 8],
      [spiId |-> "YDRV_SPI_1", dataBits |-> 3] }

\* yDrvSpiInitStatic (yDrv_spi.c:107-171): the SPI handle and the status
yDrvSpiInitStatic(config) ==
    IF config.spiId \notin {"YDRV_SPI_1", "YDRV_SPI_2"}
    THEN [spi |-> [instance |-> NULL, enabled |-> FALSE],
          st |-> YDRV_INVALID_PARAM]
    ELSE IF config.dataBits < 4 \/ config.dataBits > 16
    THEN [spi |-> [instance |-> "SPI1", enabled |-> FALSE],
          st |-> YDRV_INVALID_PARAM]
    ELSE [spi |-> [instance |-> "SPI1", enabled |-> TRUE], st |-> YDRV_OK]

\* yDrvSpiDeInitStatic (yDrv_spi.c:182-199)
yDrvSpiDeInitStatic(spi) ==
    IF spi.instance = NULL
    THEN [spi |-> spi, st |-> YDRV_INVALID_PARAM]
    ELSE [spi |-> [spi EXCEPT !.enabled = FALSE], st |-> YDRV_OK]

\* what the chip shifts out during the four bytes of a 0x9F transfer
JedecData(c) == <<255>> \o AddressBytes(c.jedec)

\* yDev25qReadJedecId: n is the count the 4-byte transfer returned
yDev25qReadJedecId(c, n) ==
    LET cmd == <<159, 255, 255, 255>>
        jedec_data == JedecData(c)
    IN  IF n # 4
        THEN [bus |-> <<Cs(0), TxShort(cmd, n), Cs(1)>>, id |-> 0]
        ELSE [bus |-> <<Cs(0), Tx(cmd), Cs(1)>>,
              id |-> jedec_data[2] * 65536 + jedec_data[3] * 256 + jedec_data[4]]

\* a lookup that compares device type and capacity only
yDev25q_IdentifyChip_NoManufacturer(jedec_id) ==
    LET hits == { i \in YDEV_25Q_TYPE_W25Q16..(YDEV_25Q_TYPE_UNKNOWN - 1) :
                    IdentifyChip25q[i + 1] % 65536 = jedec_id % 65536 }
    IN  IF hits = {} THEN YDEV_25Q_TYPE_UNKNOWN
        ELSE CHOOSE i \in hits : \A j \in hits : i <= j

\* yDev25q_IdentifyChip: the first slot of the table holding jedec_id
yDev25q_IdentifyChip(jedec_id) ==
    LET hits == { i \in YDEV_25Q_TYPE_W25Q16..(YDEV_25Q_TYPE_UNKNOWN - 1) :
                    IdentifyChip25q[i + 1] = jedec_id }
    IN  IF hits = {} THEN YDEV_25Q_TYPE_UNKNOWN
        ELSE CHOOSE i \in hits : \A j \in hits : i <= j

\* yDev25qHandleStructInit
yDev25qHandleStructInit(h) ==
    [yDevHandleStructInit(h) EXCEPT
        !.spi = [instance |-> NULL, enabled |-> FALSE],
        !.chip_type = YDEV_25Q_TYPE_UNKNOWN, !.size = 0, !.address = SizeT(0)]

\* yDev_25q_Init, reached from yDevInitStatic with both pointers non-null
yDev_25q_Init(config, h, c, n) ==
    LET s == yDrvSpiInitStatic(config)
        h1 == [h EXCEPT !.spi = s.spi]
        r == yDev25qReadJedecId(c, n)
        chip_type == yDev25q_IdentifyChip(r.id)
        h2 == [h1 EXCEPT !.chip_type = chip_type]
    IN  IF s.st # YDRV_OK
        THEN [h |-> h1, bus |-> <<>>, val |-> YDEV_ERROR]
        ELSE IF chip_type = YDEV_25Q_TYPE_UNKNOWN
        THEN [h |-> [h2 EXCEPT !.errno = YDEV_25Q_ERRNO_CHIP_NOT_FOUND,
                               !.spi = yDrvSpiDeInitStatic(h2.spi).spi],
              bus |-> r.bus, val |-> YDEV_ERROR]
        ELSE [h |-> [h2 EXCEPT !.size = CapacityOf(r.id)],
              bus |-> r.bus, val |-> YDEV_OK]

\* a Deinit that resets the chip type and leaves the capacity
yDev_25q_Deinit_KeepsSize(h) ==
    LET s == yDrvSpiDeInitStatic(h.spi) IN
    IF s.st # YDRV_OK
    THEN [h |-> h, val |-> YDEV_ERROR]
    ELSE [h |-> [h EXCEPT !.spi = s.spi,
                          !.chip_type = YDEV_25Q_TYPE_UNKNOWN],
          val |-> YDEV_OK]

\* yDev_25q_Deinit
yDev_25q_Deinit(h) ==
    LET s == yDrvSpiDeInitStatic(h.spi) IN
    IF s.st # YDRV_OK
    THEN [h |-> h, val |-> YDEV_ERROR]
    ELSE [h |-> [h EXCEPT !.spi = s.spi,
                          !.chip_type = YDEV_25Q_TYPE_UNKNOWN, !.size = 0],
          val |-> YDEV_OK]

\* ids a chip on the bus answers with: the four of the table, the next
\* smaller and larger Winbond parts, another manufacturer and another
\* device type with a capacity byte of the table, and a bus without a chip
ChipIds ==
    { IdentifyChip25q[i] : i \in 1..Len(IdentifyChip25q) }
    \cup { JedecId(239, 64, 21), JedecId(239, 64, 26), JedecId(200, 64, 22),
           JedecId(239, 96, 24), 0, JedecId(255, 255, 255) }

FlashRet(fn, args, val) == [fn |-> fn, args |-> args, val |-> val]

\* yDev25qHandleStructInit(&handle)
Flash_HandleStructInit ==
    /\ handle' = yDev25qHandleStructInit(handle)
    /\ ret' = FlashRet("yDev25qHandleStructInit", <<>>, 0)
    /\ bus' = <<>>
    /\ UNCHANGED <<ops, calls, scanned, chip, ydev_time_ms, loc>>

\* yDevInitStatic(&config, &handle) with config.base.type = YDEV_TYPE_25Q:
\* the dispatch stores index, timeOutMs and errno, then calls yDev_25q_Init
Flash_Init ==
    \E config \in FlashConfigs :
        LET r == yDev_25q_Init(config, InitMatched(handle, FirstMatch(YDEV_TYPE_25Q)),
                               chip, 4)
        IN  /\ handle' = r.h
            /\ bus' = r.bus
            /\ ret' = FlashRet("yDev_25q_Init", config, r.val)
            /\ UNCHANGED <<ops, calls, scanned, chip, ydev_time_ms, loc>>

\* yDevDeinitStatic(&handle)
Flash_Deinit ==
    LET r == yDev_25q_Deinit(handle) IN
    /\ handle' = r.h
    /\ bus' = <<>>
    /\ ret' = FlashRet("yDev_25q_Deinit", <<>>, r.val)
    /\ UNCHANGED <<ops, calls, scanned, chip, ydev_time_ms, loc>>

\* yDevIoctl(&handle, YDEV_25Q_IOCTL_READ_JEDEC_ID, arg); no byte moves on a
\* disabled SPI and the clock stands still, so the transfer needs the SPI on
Flash_ReadJedecId ==
    \E argNull \in BOOLEAN :
        /\ argNull \/ handle.spi.enabled
        /\ bus' = IF argNull THEN <<>> ELSE yDev25qReadJedecId(chip, 4).bus
        /\ ret' = FlashRet("yDev_25q_Ioctl",
                           IF argNull THEN NULL ELSE yDev25qReadJedecId(chip, 4).id,
                           IF argNull THEN YDEV_INVALID_PARAM ELSE YDEV_OK)
        /\ UNCHANGED <<ops, handle, calls, scanned, chip, ydev_time_ms, loc>>

\* the caller places the cursor: handle.address = position (a uint32_t):
\* a page start, two bytes before a page end, the last byte of a 4 MiB
\* chip, and 0xFFFFFFFF
Positions ==
    { SizeT(0), SizeT(254), SizeT(4194303), [hi |-> U16 - 1, lo |-> U16 - 1] }
Flash_Seek ==
    \E position \in Positions :
        /\ handle' = [handle EXCEPT !.address = position]
        /\ ret' = FlashRet("address", position, 0)
        /\ bus' = <<>>
        /\ UNCHANGED <<ops, calls, scanned, chip, ydev_time_ms, loc>>

ProbeInit ==
    /\ ops = <<FullOps(YDEV_TYPE_25Q)>>
    /\ handle = yDev25qHandleStructInit(InitialisedHandle(YDEV_25Q_TYPE_W25Q16))
    /\ ret = NoRet
    /\ calls = <<>>
    /\ scanned = 0
    /\ chip \in { [busy |-> FALSE, wel |-> FALSE, jedec |-> id] : id \in ChipIds }
    /\ bus = <<>>
    /\ ydev_time_ms = 0
    /\ loc = Idle

ProbeNext ==
    \/ Flash_HandleStructInit
    \/ Flash_Init
    \/ Flash_Deinit
    \/ Flash_ReadJedecId
    \/ Flash_Seek

SpecProbe == ProbeInit /\ [][ProbeNext]_vars

\* C9: after an Init that opened the SPI sub-device and read the JEDEC id,
\* an id of the known-chip table has given the handle the chip type of the
\* id's own table slot; any other id has given it the type Unknown, Init
\* has failed, the error field is ChipNotFound and the SPI is closed.
C9_JedecIdentification ==
    (ret.fn = "yDev_25q_Init" /\ yDrvSpiInitStatic(ret.args).st = YDRV_OK)
        => LET slots == { i \in 1..Len(IdentifyChip25q) :
                            IdentifyChip25q[i] = chip.jedec }
           IN  IF slots # {}
               THEN \A i \in slots : handle.chip_type = i - 1
               ELSE /\ handle.chip_type = YDEV_25Q_TYPE_UNKNOWN
                    /\ ret.val = YDEV_ERROR
                    /\ handle.errno = YDEV_25Q_ERRNO_CHIP_NOT_FOUND
                    /\ ~handle.spi.enabled

C9_Witness ==
    /\ ret.fn = "yDev_25q_Init"
    /\ yDrvSpiInitStatic(ret.args).st = YDRV_OK
    /\ chip.jedec = JedecId(200, 64, 22)
    /\ handle.chip_type = YDEV_25Q_TYPE_UNKNOWN
    /\ handle.errno = YDEV_25Q_ERRNO_CHIP_NOT_FOUND
    /\ ~handle.spi.enabled
    /\ Len(bus) = 3

(***************************************************************************)
(* uint32_t cursor arithmetic on limbs                                     *)
(***************************************************************************)
\* a + n modulo 2^32, for 0 <= n < 2^16
U32Add(a, n) ==
    [hi |-> (a.hi + (a.lo + n) \div U16) % U16, lo |-> (a.lo + n) % U16]

\* a + n without the wrap: the high limb may reach 2^16
WideAdd(a, n) == [hi |-> a.hi + (a.lo + n) \div U16, lo |-> (a.lo + n) % U16]

\* (a >> 16) & 0xFF, (a >> 8) & 0xFF, a & 0xFF as one 24-bit number
U32Low24(a) == (a.hi % 256) * U16 + a.lo

(***************************************************************************)
(* The NOR flash chip behind the bus: a write-enable latch and an array of *)
(* bytes.  Bytes never programmed since their last erase read 0xFF, bytes  *)
(* never erased read the value dirty; cells holds every other byte.        *)
(***************************************************************************)
RECURSIVE BitAnd(_, _)
BitAnd(x, y) ==
    IF x = 255 THEN y
    ELSE IF y = 255 THEN x
    ELSE IF x = 0 \/ y = 0 THEN 0
    ELSE (x % 2) * (y % 2) + 2 * BitAnd(x \div 2, y \div 2)

\* erased: disjoint intervals <<lo, hi>> of bytes erased at least once;
\* cells: address |-> byte, for the bytes that differ from Blank
NoMemory == [dirty |-> 0, erased |-> {}, cells |-> [a \in {} |-> 0]]

\* a chip decodes as many address bits as it has bytes
Cell(c, wire) == wire % Min(CapacityOf(c.jedec), AddressSpace)

Blank(mem, a) ==
    IF \E iv \in mem.erased : iv[1] <= a /\ a < iv[2] THEN 255 ELSE mem.dirty

ReadByte(mem, a) ==
    IF a \in DOMAIN mem.cells THEN mem.cells[a] ELSE Blank(mem, a)

\* data programmed from address a on, wrapping inside the 256-byte page
\* (of more than 256 bytes the last 256 count); programming clears bits only
ProgramPage(mem, a, data) ==
    LET n == Len(data)
        first == IF n > 256 THEN n - 255 ELSE 1
        Target(i) == AlignDown(a, 256) + (((a % 256) + i - 1) % 256)
        Index(t) == first + (((t % 256) + 256 - (Target(first) % 256)) % 256)
        new == [t \in { Target(i) : i \in first..n } |->
                  BitAnd(ReadByte(mem, t), data[Index(t)])]
        keep == { t \in DOMAIN new : new[t] # Blank(mem, t) }
        old == DOMAIN mem.cells \ DOMAIN new
    IN  [mem EXCEPT !.cells =
            [t \in old \cup keep |-> IF t \in keep THEN new[t] ELSE mem.cells[t]]]

\* the bytes lo .. lo + len - 1 return to 0xFF
EraseUnit(mem, lo, len) ==
    LET touching == { iv \in mem.erased : iv[1] <= lo + len /\ iv[2] >= lo }
        all == touching \cup {<<lo, lo + len>>}
        merged == << (CHOOSE iv \in all : \A o \in all : iv[1] <= o[1])[1],
                     (CHOOSE iv \in all : \A o \in all : iv[2] >= o[2])[2] >>
        left == { t \in DOMAIN mem.cells : t < lo \/ t >= lo + len }
    IN  [mem EXCEPT !.erased = (@ \ touching) \cup {merged},
                    !.cells = [t \in left |-> mem.cells[t]]]

\* the chip acts on the bytes of one frame: opcodes in sequence, a
\* program or erase only with the latch set, which it then clears while
\* it turns busy; a busy chip acts on nothing
RECURSIVE ChipFrame(_, _)
ChipFrame(c, s) ==
    IF Len(s) = 0 \/ c.busy THEN c
    ELSE CASE s[1] = 6 -> ChipFrame([c EXCEPT !.wel = TRUE], Tail(s))
           [] s[1] = 4 -> ChipFrame([c EXCEPT !.wel = FALSE], Tail(s))
           [] s[1] = 2 /\ Len(s) > 4 ->
                IF c.wel
                THEN [c EXCEPT !.wel = FALSE, !.busy = TRUE,
                               !.mem = ProgramPage(@, Cell(c, WireAddress(s)),
                                                   SubSeq(s, 5, Len(s)))]
                ELSE c
           [] s[1] \in {32, 216} /\ Len(s) >= 4 ->
                IF c.wel
                THEN LET len == IF s[1] = 216 THEN 65536 ELSE 4096 IN
                     [c EXCEPT !.wel = FALSE, !.busy = TRUE,
                               !.mem = EraseUnit(@, AlignDown(Cell(c, WireAddress(s)), len),
                                                 len)]
                ELSE c
           [] s[1] \in {3, 5, 159} -> c
           [] OTHER -> ChipFrame(c, Tail(s))

\* the chip along a sequence of bus events: bytes collect into a frame,
\* which ends at every chip-select call and every status poll; a WaitBusy
\* that returned YDRV_OK has seen the chip finish
RECURSIVE ChipRun(_, _, _)
ChipRun(c, frame, events) ==
    IF Len(events) = 0 THEN c
    ELSE IF Head(events).e \in {"tx", "rd"}
    THEN ChipRun(c, frame \o Head(events).d, Tail(events))
    ELSE IF Head(events).e = "wait" /\ Head(events).st = YDRV_OK
    THEN ChipRun([ChipFrame(c, frame) EXCEPT !.busy = FALSE], <<>>, Tail(events))
    ELSE ChipRun(ChipFrame(c, frame), <<>>, Tail(events))

(***************************************************************************)
(* yDev_25q_Read / yDev_25q_Write / yDev25q_WritePage / yDev25q_Erase /    *)
(* yDev_25q_Ioctl as whole calls.  ydev_time_ms never advances, so every   *)
(* transfer runs to its last byte and every WaitBusy ends with the chip    *)
(* ready; a call returns the handle, the chip, its bus events, its value.  *)
(***************************************************************************)
YDEV_25Q_CMD_PAGE_PROGRAM == 2
YDEV_25Q_CMD_READ_DATA == 3
YDEV_25Q_ERRNO_WRITE_FAIL == 16384

\* the bytes captured by the dummy-byte loop of yDev_25q_Read
Rd(d) == [e |-> "rd", d |-> d, n |-> Len(d)]

\* !((handle->address + size) > handle->size), in uint32_t arithmetic
InRange(h, size) == SizeLe(U32Add(h.address, size), SizeT(h.size))

yDev_25q_Read(h, c, bufNull, size) ==
    IF bufNull \/ size = 0
    THEN [h |-> h, c |-> c, bus |-> <<>>, val |-> -1, buf |-> <<>>]
    ELSE IF ~InRange(h, size)
    THEN [h |-> [h EXCEPT !.errno = YDEV_25Q_ERRNO_INVALID_ADDRESS],
          c |-> c, bus |-> <<>>, val |-> -1, buf |-> <<>>]
    ELSE LET wire == U32Low24(h.address)
             data == [i \in 1..size |->
                        ReadByte(c.mem, Cell(c, (wire + i - 1) % AddressSpace))]
             events == << Wait(YDEV_25Q_TIMEOUT_PAGE_PROGRAM, YDRV_OK), Cs(1),
                          Tx(<<YDEV_25Q_CMD_READ_DATA>> \o AddressBytes(wire)),
                          Rd(data), Cs(0) >>
         IN  [h |-> [h EXCEPT !.address = U32Add(h.address, size)],
              c |-> ChipRun(c, <<>>, events), bus |-> events,
              val |-> size, buf |-> data]

\* write_cmd[1..3] are not assigned before the first transfer sends them
UninitBytes == { <<255, 255, 255>>, <<0, 4, 0>> }

\* yDev25q_WritePage running its steps a second time
yDev25q_WritePage_Twice(h, c, start_address, write_data, uninit) ==
    LET events ==
            << Wait(YDEV_25Q_TIMEOUT_PAGE_PROGRAM, YDRV_OK), Cs(0),
               Tx(<<YDEV_25Q_CMD_WRITE_ENABLE>> \o uninit),
               Tx(<<YDEV_25Q_CMD_PAGE_PROGRAM>>
                  \o AddressBytes(U32Low24(start_address))),
               Tx(write_data),
               Wait(YDEV_25Q_TIMEOUT_PAGE_PROGRAM, YDRV_OK), Cs(1) >>
    IN  [h |-> h, c |-> ChipRun(c, <<>>, events \o events),
         bus |-> events \o events, st |-> YDRV_OK]

yDev25q_WritePage(h, c, start_address, write_data, uninit) ==
    LET events ==
            << Wait(YDEV_25Q_TIMEOUT_PAGE_PROGRAM, YDRV_OK), Cs(0),
               Tx(<<YDEV_25Q_CMD_WRITE_ENABLE>> \o uninit),
               Tx(<<YDEV_25Q_CMD_PAGE_PROGRAM>>
                  \o AddressBytes(U32Low24(start_address))),
               Tx(write_data),
               Wait(YDEV_25Q_TIMEOUT_PAGE_PROGRAM, YDRV_OK), Cs(1) >>
    IN  [h |-> h, c |-> ChipRun(c, <<>>, events), bus |-> events, st |-> YDRV_OK]

\* the while loop of yDev_25q_Write from total_written on
RECURSIVE WritePages(_, _, _, _, _, _, _)
WritePages(h, c, trace, buffer, total_written, current_address, uninit) ==
    IF total_written >= Len(buffer)
    THEN [h |-> [h EXCEPT !.address = current_address], c |-> c, bus |-> trace,
          val |-> total_written]
    ELSE
    LET page_offset == current_address.lo % YDEV_25Q_PAGE_SIZE
        write_size == Min(YDEV_25Q_PAGE_SIZE - page_offset,
                          Len(buffer) - total_written)
        chunk == SubSeq(buffer, total_written + 1, total_written + write_size)
    IN  IF page_offset # 0 \/ write_size # YDEV_25Q_PAGE_SIZE
        THEN LET page_start == [current_address EXCEPT !.lo = @ - page_offset]
                 saved_address == h.address
                 r == yDev_25q_Read([h EXCEPT !.address = page_start], c, FALSE,
                                    YDEV_25Q_PAGE_SIZE)
                 page_buffer ==
                     [i \in 1..YDEV_25Q_PAGE_SIZE |->
                        IF i > page_offset /\ i <= page_offset + write_size
                        THEN chunk[i - page_offset] ELSE r.buf[i]]
                 w == yDev25q_WritePage(r.h, r.c, page_start, page_buffer, uninit)
             IN  IF r.val # YDEV_25Q_PAGE_SIZE
                 THEN [h |-> [r.h EXCEPT !.errno = YDEV_25Q_ERRNO_SPI_ERROR],
                       c |-> r.c, bus |-> trace \o r.bus, val |-> -1]
                 ELSE WritePages([w.h EXCEPT !.address = saved_address], w.c,
                                 trace \o r.bus \o w.bus, buffer,
                                 total_written + write_size,
                                 U32Add(current_address, write_size), uninit)
        ELSE LET w == yDev25q_WritePage(h, c, current_address, chunk, uninit)
             IN  WritePages(w.h, w.c, trace \o w.bus, buffer,
                            total_written + write_size,
                            U32Add(current_address, write_size), uninit)

\* yDev_25q_Write returning with the cursor it was entered with
yDev_25q_Write_NoCursorUpdate(h, c, bufNull, buffer, uninit) ==
    IF bufNull \/ Len(buffer) = 0
    THEN [h |-> h, c |-> c, bus |-> <<>>, val |-> -1]
    ELSE IF ~InRange(h, Len(buffer))
    THEN [h |-> [h EXCEPT !.errno = YDEV_25Q_ERRNO_INVALID_ADDRESS],
          c |-> c, bus |-> <<>>, val |-> -1]
    ELSE LET r == WritePages(h, c, <<>>, buffer, 0, h.address, uninit)
         IN  [r EXCEPT !.h.address = h.address]

yDev_25q_Write(h, c, bufNull, buffer, uninit) ==
    IF bufNull \/ Len(buffer) = 0
    THEN [h |-> h, c |-> c, bus |-> <<>>, val |-> -1]
    ELSE IF ~InRange(h, Len(buffer))
    THEN [h |-> [h EXCEPT !.errno = YDEV_25Q_ERRNO_INVALID_ADDRESS],
          c |-> c, bus |-> <<>>, val |-> -1]
    ELSE WritePages(h, c, <<>>, buffer, 0, h.address, uninit)

\* one pass of the while loop of yDev25q_Erase; s holds the locals of the
\* call, and every WaitBusy of the pass returns with the chip ready
ErasePass(s) ==
    LET block == UseBlock(s.current_address, s.remaining_size)
        erase_size == IF block THEN YDEV_25Q_BLOCK_SIZE
                               ELSE YDEV_25Q_SECTOR_SIZE
        r == IF block THEN BlockErase(s.current_address, 0)
                      ELSE SectorErase(s.current_address, 0)
    IN  [s EXCEPT !.c = ChipRun(s.c, <<>>, r.bus),
                  !.bus = @ \o r.bus,
                  !.current_address = @ + erase_size,
                  !.remaining_size = @ - erase_size]

\* the while loop of yDev25q_Erase, at most n passes from s on (a pass
\* takes at least one sector off remaining_size); the passes are split in
\* two halves so that the evaluation stays shallow
RECURSIVE EraseLoop(_, _)
EraseLoop(s, n) ==
    IF s.remaining_size <= 0 THEN s
    ELSE IF n <= 1 THEN ErasePass(s)
    ELSE LET mid == EraseLoop(s, n \div 2)
         IN  IF mid.remaining_size <= 0 THEN mid
             ELSE EraseLoop(mid, n - (n \div 2))

yDev25q_Erase(h, c, start_address, size) ==
    IF size = 0
    THEN [h |-> h, c |-> c, bus |-> <<>>, val |-> YDRV_INVALID_PARAM]
    ELSE IF start_address + size > h.size
    THEN [h |-> [h EXCEPT !.errno = YDEV_25Q_ERRNO_INVALID_ADDRESS],
          c |-> c, bus |-> <<>>, val |-> YDRV_INVALID_PARAM]
    ELSE LET w == EraseWindow(start_address, size)
             s == EraseLoop([c |-> c, bus |-> <<>>,
                             current_address |-> w.current_address,
                             remaining_size |-> w.remaining_size],
                            (w.remaining_size \div YDEV_25Q_SECTOR_SIZE) + 1)
         IN  [h |-> h, c |-> s.c, bus |-> s.bus, val |-> YDRV_OK]

(***************************************************************************)
(* An application using one flash handle: it places the cursor and calls   *)
(* chip erase, Write and Read, MaxCalls calls in all.  calls keeps the     *)
(* calls of a running erase - write - read sequence.                       *)
(***************************************************************************)
MaxCalls == 3

\* buffers handed to Write: one byte, three bytes, one whole page
WriteData == { <<170>>, <<18, 52, 86>>, [i \in 1..YDEV_25Q_PAGE_SIZE |-> i - 1] }
ReadSizes == {1, 3, YDEV_25Q_PAGE_SIZE}

\* the chip of the default board: id 0xEF4016, never erased so far
FlashInit ==
    /\ ops = <<FullOps(YDEV_TYPE_25Q)>>
    /\ handle = InitialisedHandle(YDEV_25Q_TYPE_W25Q16)
    /\ ret = NoRet
    /\ calls = <<>>
    /\ scanned = 0
    /\ chip = [busy |-> FALSE, wel |-> FALSE,
               jedec |-> IdentifyChip25q[YDEV_25Q_TYPE_W25Q16 + 1],
               mem |-> NoMemory]
    /\ bus = <<>>
    /\ ydev_time_ms = 0
    /\ loc = [at |-> "app", step |-> 0]

\* yDevIoctl(&handle, YDEV_25Q_IOCTL_CHIP_ERASE, NULL)
Flash_ChipErase ==
    /\ loc.step < MaxCalls
    /\ LET r == yDev25q_Erase(handle, chip, 0, handle.size) IN
       /\ handle' = r.h
       /\ chip' = r.c
       /\ bus' = r.bus
       /\ ret' = FlashRet("yDev_25q_Ioctl", YDEV_25Q_IOCTL_CHIP_ERASE, r.val)
       /\ calls' = IF r.val = YDRV_OK THEN <<[fn |-> "erase"]>> ELSE <<>>
    /\ loc' = [loc EXCEPT !.step = @ + 1]
    /\ UNCHANGED <<ops, scanned, ydev_time_ms>>

\* yDevWrite(&handle, buffer, sizeof buffer)
Flash_Write ==
    /\ loc.step < MaxCalls
    /\ \E buffer \in WriteData, uninit \in UninitBytes :
        LET r == yDev_25q_Write(handle, chip, FALSE, buffer, uninit)
            call == [fn |-> "write", pos |-> handle.address, data |-> buffer,
                     val |-> r.val]
        IN  /\ handle' = r.h
            /\ chip' = r.c
            /\ bus' = r.bus
            /\ ret' = FlashRet("yDev_25q_Write",
                               [pos |-> handle.address, size |-> Len(buffer)],
                               r.val)
            /\ calls' = IF Len(calls) = 1 THEN Append(calls, call) ELSE <<>>
    /\ loc' = [loc EXCEPT !.step = @ + 1]
    /\ UNCHANGED <<ops, scanned, ydev_time_ms>>

\* yDevRead(&handle, buffer, size)
Flash_Read ==
    /\ loc.step < MaxCalls
    /\ \E size \in ReadSizes :
        LET r == yDev_25q_Read(handle, chip, FALSE, size)
            call == [fn |-> "read", pos |-> handle.address, size |-> size,
                     val |-> r.val, buf |-> r.buf]
        IN  /\ handle' = r.h
            /\ chip' = r.c
            /\ bus' = r.bus
            /\ ret' = FlashRet("yDev_25q_Read",
                               [pos |-> handle.address, size |-> size], r.val)
            /\ calls' = IF Len(calls) = 2 THEN Append(calls, call) ELSE <<>>
    /\ loc' = [loc EXCEPT !.step = @ + 1]
    /\ UNCHANGED <<ops, scanned, ydev_time_ms>>

FlashNext == Flash_Seek \/ Flash_ChipErase \/ Flash_Write \/ Flash_Read

SpecFlash == FlashInit /\ [][FlashNext]_vars

\* cursor + size <= capacity, without the wrap of 32-bit arithmetic
WithinCapacity(pos, size) == SizeLe(WideAdd(pos, size), SizeT(handle.size))

\* C1 (as claimed): after a successful chip erase, a Write of data with the
\* cursor at address, address + size <= capacity, followed by a Read of
\* size bytes with the cursor back at address returns size and data.
C1_RoundTrip ==
    ( /\ Len(calls) = 3
      /\ calls[3].pos = calls[2].pos
      /\ calls[3].size = Len(calls[2].data)
      /\ WithinCapacity(calls[2].pos, calls[3].size) )
        => /\ calls[3].val = calls[3].size
           /\ calls[3].buf = calls[2].data

\* C10 (as claimed): a Read or Write entered with cursor + size > capacity
\* returns -1 with the error field InvalidAddress, puts nothing on the bus,
\* makes no chip-select call and leaves the cursor where it was.
C10_OutOfRangeRejected ==
    ( /\ ret.fn \in {"yDev_25q_Read", "yDev_25q_Write"}
      /\ ~WithinCapacity(ret.args.pos, ret.args.size) )
        => /\ ret.val = -1
           /\ handle.errno = YDEV_25Q_ERRNO_INVALID_ADDRESS
           /\ bus = <<>>
           /\ handle.address = ret.args.pos

(***************************************************************************)
(* yDev_25q_Read (yDev_25q.c:339-419) step by step, with a time source    *)
(* that may advance ydev_time_ms: the checks and the command in one step,  *)
(* then one step per captured byte.  A pass of the byte loop in which      *)
(* yDrvSpiWriteByte or yDrvSpiReadByte returns 0 changes neither index nor *)
(* the handle and is not a step of its own.                                *)
(***************************************************************************)
ReqSizes25q == 0..3

\* lines 396-399: the cursor and the error field on the timeout exit
Read_TimeoutExit_NoAdvance(h, index) ==
    [h EXCEPT !.errno = YDEV_25Q_ERRNO_TIMEOUT]

Read_TimeoutExit(h, index) ==
    [h EXCEPT !.address = U32Add(@, index), !.errno = YDEV_25Q_ERRNO_TIMEOUT]

\* what loc holds once Read has returned
ReadDone(old, size, exit, val) ==
    [at |-> "ReadDone", old |-> old, size |-> size, exit |-> exit,
     val |-> val, start_time |-> 0, index |-> 0]

\* lines 349-389.  WaitBusy returns YDRV_TIMEOUT only after more than its
\* ceiling has elapsed, Spi_Transfer returns short only after more than
\* handle.timeOutMs has elapsed
Read_Enter ==
    /\ loc.at = "idle"
    /\ \E bufNull \in BOOLEAN, size \in ReqSizes25q :
        LET old == handle.address
            cmd == <<YDEV_25Q_CMD_READ_DATA>> \o AddressBytes(U32Low24(old))
            ms == YDEV_25Q_TIMEOUT_PAGE_PROGRAM
        IN  IF bufNull \/ size = 0
            THEN /\ loc' = ReadDone(old, size, "param", -1)
                 /\ UNCHANGED <<handle, bus, ydev_time_ms>>
            ELSE IF ~InRange(handle, size)
            THEN /\ loc' = ReadDone(old, size, "address", -1)
                 /\ handle' = [handle EXCEPT
                                 !.errno = YDEV_25Q_ERRNO_INVALID_ADDRESS]
                 /\ UNCHANGED <<bus, ydev_time_ms>>
            ELSE \/ /\ chip.busy
                    /\ ydev_time_ms + ms + 1 <= MaxTime
                    /\ ydev_time_ms' = ydev_time_ms + ms + 1
                    /\ loc' = ReadDone(old, size, "busy", -1)
                    /\ handle' = [handle EXCEPT !.errno = YDEV_25Q_ERRNO_TIMEOUT]
                    /\ bus' = <<Wait(ms, YDRV_TIMEOUT)>>
                 \/ /\ ~chip.busy
                    /\ \E k \in {0, 3} :
                         /\ ydev_time_ms + handle.timeOutMs + 1 <= MaxTime
                         /\ ydev_time_ms' = ydev_time_ms + handle.timeOutMs + 1
                         /\ loc' = ReadDone(old, size, "command", -1)
                         /\ handle' = [handle EXCEPT
                                         !.errno = YDEV_25Q_ERRNO_SPI_ERROR]
                         /\ bus' = <<Wait(ms, YDRV_OK), Cs(1), TxShort(cmd, k),
                                     Cs(0)>>
                 \/ /\ ~chip.busy
                    /\ loc' = [at |-> "ReadLoop", old |-> old, size |-> size,
                               exit |-> "none", val |-> 0,
                               start_time |-> yDevGetTimeMS, index |-> 0]
                    /\ bus' = <<Wait(ms, YDRV_OK), Cs(1), Tx(cmd)>>
                    /\ UNCHANGED <<handle, ydev_time_ms>>
    /\ UNCHANGED <<ops, ret, calls, scanned, chip>>

\* lines 391-418: the timeout test, then one byte captured; the pass that
\* captures the last byte also leaves the loop and returns
Read_Byte ==
    /\ loc.at = "ReadLoop"
    /\ IF Elapsed(loc.start_time) > handle.timeOutMs
       THEN /\ bus' = bus \o <<Cs(0)>>
            /\ handle' = Read_TimeoutExit(handle, loc.index)
            /\ loc' = [loc EXCEPT !.at = "ReadDone", !.exit = "timeout",
                                  !.val = loc.index]
       ELSE IF loc.index + 1 < loc.size
       THEN /\ loc' = [loc EXCEPT !.index = @ + 1]
            /\ UNCHANGED <<handle, bus>>
       ELSE /\ bus' = bus \o <<Cs(0)>>
            /\ handle' = [handle EXCEPT !.address = U32Add(@, loc.index + 1)]
            /\ loc' = [loc EXCEPT !.at = "ReadDone", !.exit = "complete",
                                  !.index = @ + 1, !.val = loc.index + 1]
    /\ UNCHANGED <<ops, ret, calls, scanned, chip, ydev_time_ms>>

ReadInit ==
    /\ ops = <<FullOps(YDEV_TYPE_25Q)>>
    /\ \E position \in Positions :
         handle = [InitialisedHandle(YDEV_25Q_TYPE_W25Q16) EXCEPT
                      !.address = position]
    /\ ret = NoRet
    /\ calls = <<>>
    /\ scanned = 0
    /\ chip \in [busy : BOOLEAN, wel : {FALSE}]
    /\ bus = <<>>
    /\ ydev_time_ms = 0
    /\ loc = Idle

ReadNext == Read_Enter \/ Read_Byte \/ Tick

SpecRead == ReadInit /\ [][ReadNext]_vars

\* C11: a Read that completes returns size and leaves the cursor at the old
\* cursor + size; a Read whose byte loop runs into the per-call timeout after
\* k < size bytes has deasserted chip-select, set the error field to Timeout,
\* returns k and leaves the cursor at the old cursor + k (uint32_t sums).
C11_ReadCountIsAdvance ==
    (loc.at = "ReadDone" /\ loc.exit \in {"complete", "timeout"})
        => /\ handle.address = U32Add(loc.old, loc.val)
           /\ bus[Len(bus)] = Cs(0)
           /\ loc.exit = "complete" => loc.val = loc.size
           /\ loc.exit = "timeout"
                => /\ loc.val < loc.size
                   /\ loc.val = loc.index
                   /\ handle.errno = YDEV_25Q_ERRNO_TIMEOUT

\* C11 witness: a Read of 3 bytes from cursor 254 has timed out after 2.
C11_Witness ==
    /\ loc.at = "ReadDone" /\ loc.exit = "timeout"
    /\ loc.size = 3 /\ loc.val = 2
    /\ loc.old = SizeT(254) /\ handle.address = SizeT(256)
    /\ handle.errno = YDEV_25Q_ERRNO_TIMEOUT

(***************************************************************************)
(* Init / Deinit / re-Init sequences of the flash handle                   *)
(***************************************************************************)
\* C16: after every successful flash Init the address cursor is 0, also on
\* a handle whose cursor an earlier use had moved before Deinit and re-Init.
C16_CursorZeroAfterInit ==
    (ret.fn = "yDev_25q_Init" /\ ret.val = YDEV_OK) => handle.address = SizeT(0)

\* yDev25qType_t: the size the header documents for each chip type
\* (W25Q16: 2MB, W25Q32: 4MB, W25Q64: 8MB, W25Q128: 16MB)
DocumentedSize(ct) == Pow2(ct + 1) * 1024 * 1024

\* C18: the capacity a successful Init records equals the size documented
\* for the chip type it has identified.
C18_DocumentedCapacity ==
    (ret.fn = "yDev_25q_Init" /\ ret.val = YDEV_OK)
        => handle.size = DocumentedSize(handle.chip_type)

(***************************************************************************)
(* Results of the dispatch calls as the caller receives them               *)
(***************************************************************************)
\* C20: the size_t returned by dispatch Read and dispatch Write is a count
\* between 0 and the requested size; a failure of the driver never reaches
\* the caller as a count above the request.
C20_CountWithinRequest ==
    ret.fn \in {"yDevRead", "yDevWrite"} => SizeLe(ret.val, ret.args.size)

\* C19: with at least one record linked into the table, the index of the
\* handle addresses a registered record in every reachable state, and every
\* driver function the dispatch has invoked was taken from a registered
\* record: after handle initialisation, after a successful Init, after an
\* Init that failed with NotFound and after Deinit.
C19_IndexAddressesRecord ==
    Len(ops) > 0
        => /\ handle.index \in 0..(Len(ops) - 1)
           /\ \A i \in 1..Len(calls) : calls[i].index \in 0..(Len(ops) - 1)

\* C19 witness: a Read dispatched through record 1 of two on a handle
\* whose latest Init failed with NotFound after an earlier Init had matched
\* record 1.
C19_Witness ==
    /\ Len(ops) = 2
    /\ ret.fn = "yDevRead"
    /\ Len(calls) = 1 /\ calls[1].index = 1
    /\ handle.index = 1
    /\ handle.errno = YDEV_ERRNO_NOT_FOUND

(***************************************************************************)
(* The passes of the erase loop as seen on the bus (under SpecErase, where *)
(* bus holds the events of the latest pass)                                *)
(***************************************************************************)
\* C14: every pass of the erase loop issues one erase command: Block-Erase
\* 0xD8 if and only if the address the pass started from is a multiple of
\* 65536 and at least 65536 bytes remained, else Sector-Erase 0x20 of 4096
\* bytes; the unit erased on the chip begins at that address, the address
\* has advanced and the remaining size has decreased by the unit, and the
\* units so far tile [window start, current address) without gap or overlap.
C14_EraseUnitsTile ==
    (loc.at \in {"EraseLoop", "EraseDone"} /\ Len(bus) > 0
        /\ loc.result \in {"none", YDRV_OK})
        => /\ Len(EraseUnits(bus)) = 1
           /\ LET u == EraseUnits(bus)[1]
                  w == EraseWindow(loc.start_address, loc.size)
                  from == loc.current_address - u.len
                  remained == loc.remaining_size + u.len
              IN  /\ (u.cmd = YDEV_25Q_CMD_BLOCK_ERASE)
                        <=> (from % 65536 = 0 /\ remained >= 65536)
                  /\ (u.cmd # YDEV_25Q_CMD_BLOCK_ERASE)
                        => (u.cmd = YDEV_25Q_CMD_SECTOR_ERASE /\ u.len = 4096)
                  /\ u.addr = from
                  /\ loc.current_address + loc.remaining_size
                        = w.current_address + w.remaining_size
                  /\ loc.area.joined
                  /\ loc.area.lo = w.current_address
                  /\ loc.area.hi = loc.current_address

(***************************************************************************)
(* yDev_25q_Ioctl (yDev_25q.c:527-557) as a whole call; arg is the word    *)
(* the call stored through its argument pointer, NULL when it stored none  *)
(***************************************************************************)
YDEV_25Q_IOCTL_SECTOR_ERASE == 33282
YDEV_25Q_IOCTL_CLEAR_PROTECTION == 33294

\* yDev_25q_Ioctl answering every command but the chip erase with
\* YDEV_NOT_SUPPORTED
yDev_25q_Ioctl_EraseOnly(h, c, cmd, argNull) ==
    IF cmd = YDEV_25Q_IOCTL_CHIP_ERASE
    THEN LET r == yDev25q_Erase(h, c, 0, h.size)
         IN  [h |-> r.h, c |-> r.c, bus |-> r.bus, val |-> r.val, arg |-> NULL]
    ELSE [h |-> h, c |-> c, bus |-> <<>>, val |-> YDEV_NOT_SUPPORTED,
          arg |-> NULL]

\* yDev_25q_Ioctl storing the error code of an unknown command in the
\* handle and marking the handle unidentified
yDev_25q_Ioctl_DropsType(h, c, cmd, argNull) ==
    IF cmd = YDEV_25Q_IOCTL_CHIP_ERASE
    THEN LET r == yDev25q_Erase(h, c, 0, h.size)
         IN  [h |-> r.h, c |-> r.c, bus |-> r.bus, val |-> r.val, arg |-> NULL]
    ELSE IF cmd = YDEV_25Q_IOCTL_READ_JEDEC_ID
    THEN IF ~argNull
         THEN LET r == yDev25qReadJedecId(c, 4)
              IN  [h |-> h, c |-> ChipRun(c, <<>>, r.bus), bus |-> r.bus,
                   val |-> YDEV_OK, arg |-> r.id]
         ELSE [h |-> h, c |-> c, bus |-> <<>>, val |-> YDEV_INVALID_PARAM,
               arg |-> NULL]
    ELSE [h |-> [h EXCEPT !.chip_type = YDEV_25Q_TYPE_UNKNOWN, !.size = 0],
          c |-> c, bus |-> <<>>, val |-> YDEV_NOT_SUPPORTED, arg |-> NULL]

yDev_25q_Ioctl(h, c, cmd, argNull) ==
    IF cmd = YDEV_25Q_IOCTL_CHIP_ERASE
    THEN LET r == yDev25q_Erase(h, c, 0, h.size)
         IN  [h |-> r.h, c |-> r.c, bus |-> r.bus, val |-> r.val, arg |-> NULL]
    ELSE IF cmd = YDEV_25Q_IOCTL_READ_JEDEC_ID
    THEN IF ~argNull
         THEN LET r == yDev25qReadJedecId(c, 4)
              IN  [h |-> h, c |-> ChipRun(c, <<>>, r.bus), bus |-> r.bus,
                   val |-> YDEV_OK, arg |-> r.id]
         ELSE [h |-> h, c |-> c, bus |-> <<>>, val |-> YDEV_INVALID_PARAM,
               arg |-> NULL]
    ELSE [h |-> h, c |-> c, bus |-> <<>>, val |-> YDEV_NOT_SUPPORTED,
          arg |-> NULL]

(***************************************************************************)
(* An application on a factory-fresh (all 0xFF) chip: MaxUse calls of      *)
(* Write, Read and Ioctl from a cursor it has placed.  calls keeps the     *)
(* memory the chip held when the latest call was made.                     *)
(***************************************************************************)
MaxUse == 2

\* buffers handed to Write: ten bytes 0xAA, and 300 bytes that span a page
\* boundary twice from cursor 254
PageData == { [i \in 1..10 |-> 170], [i \in 1..300 |-> i % 251] }

\* cursors the application starts from: a page start, inside a page, two
\* bytes before a page end, four bytes before the end of the chip
UseCursors == {SizeT(0), SizeT(10), SizeT(254), SizeT(4194300)}

UseCmds ==
    {YDEV_25Q_IOCTL_CHIP_ERASE, YDEV_25Q_IOCTL_READ_JEDEC_ID,
     YDEV_25Q_IOCTL_SECTOR_ERASE, YDEV_25Q_IOCTL_CLEAR_PROTECTION}

UseInit ==
    /\ ops = <<FullOps(YDEV_TYPE_25Q)>>
    /\ \E position \in UseCursors :
         handle = [InitialisedHandle(YDEV_25Q_TYPE_W25Q16) EXCEPT
                      !.address = position]
    /\ ret = NoRet
    /\ calls = <<>>
    /\ scanned = 0
    /\ chip = [busy |-> FALSE, wel |-> FALSE,
               jedec |-> IdentifyChip25q[YDEV_25Q_TYPE_W25Q16 + 1],
               mem |-> [NoMemory EXCEPT
                          !.erased = {<<0, CapacityOf(IdentifyChip25q[1])>>}]]
    /\ bus = <<>>
    /\ ydev_time_ms = 0
    /\ loc = [at |-> "app", step |-> 0]

\* what every call of the application leaves behind
Used(fn, args, r) ==
    /\ handle' = r.h
    /\ chip' = r.c
    /\ bus' = r.bus
    /\ ret' = FlashRet(fn, args, r.val)
    /\ calls' = <<[mem |-> chip.mem]>>
    /\ loc' = [loc EXCEPT !.step = @ + 1]
    /\ UNCHANGED <<ops, scanned, ydev_time_ms>>

\* yDevWrite(&handle, buffer, sizeof buffer)
Use_Write ==
    /\ loc.step < MaxUse
    /\ \E buffer \in PageData, uninit \in UninitBytes :
        Used("yDev_25q_Write",
             [pos |-> handle.address, size |-> Len(buffer), data |-> buffer],
             yDev_25q_Write(handle, chip, FALSE, buffer, uninit))

\* yDevRead(&handle, buffer, size)
Use_Read ==
    /\ loc.step < MaxUse
    /\ \E size \in {1, YDEV_25Q_PAGE_SIZE} :
        Used("yDev_25q_Read", [pos |-> handle.address, size |-> size],
             yDev_25q_Read(handle, chip, FALSE, size))

\* yDevIoctl(&handle, cmd, arg)
Use_Ioctl ==
    /\ loc.step < MaxUse
    /\ \E cmd \in UseCmds, argNull \in BOOLEAN :
        LET r == yDev_25q_Ioctl(handle, chip, cmd, argNull) IN
        Used("yDev_25q_Ioctl",
             [cmd |-> cmd, argNull |-> argNull, arg |-> r.arg, h |-> handle], r)

UseNext == Use_Write \/ Use_Read \/ Use_Ioctl

SpecUse == UseInit /\ [][UseNext]_vars

\* C12: a Write that does not fail returns the size of its buffer and
\* leaves the cursor at the old cursor + size, whatever the starting cursor
\* and however many pages (and internal page reads) the buffer takes.
C12_WriteCountIsAdvance ==
    (ret.fn = "yDev_25q_Write" /\ ret.val # -1)
        => /\ ret.val = ret.args.size
           /\ handle.address = U32Add(ret.args.pos, ret.args.size)

\* C12 witness: 300 bytes written from cursor 254: two bytes completing
\* page 0, the whole of page 1, 42 bytes of page 2; two internal page reads.
C12_Witness ==
    /\ ret.fn = "yDev_25q_Write"
    /\ ret.args.pos = SizeT(254) /\ ret.args.size = 300
    /\ ret.val = 300
    /\ handle.address = SizeT(554)
    /\ Len(SelectSeq(bus, LAMBDA ev : ev.e = "rd")) = 2

\* the first four pages of the chip, where every Write of SpecUse that is
\* not rejected lands
FirstPages == 0..(4 * YDEV_25Q_PAGE_SIZE - 1)

\* byte a lies in [pos, pos + size)
Written(a, pos, size) == pos.hi = 0 /\ a >= pos.lo /\ a < pos.lo + size

\* C13: a Write inside the capacity changes only the bytes of
\* [cursor, cursor + size): every byte of that range that was 0xFF holds
\* the byte of the buffer written to it, and every other byte of the touched
\* and the untouched pages holds what it held before (0xFF on an erased
\* page).
C13_WriteChangesOnlyItsRange ==
    ( /\ ret.fn = "yDev_25q_Write"
      /\ ret.val # -1
      /\ WithinCapacity(ret.args.pos, ret.args.size) )
        => \A a \in FirstPages :
              IF Written(a, ret.args.pos, ret.args.size)
              THEN ReadByte(calls[1].mem, a) = 255
                      => ReadByte(chip.mem, a)
                            = ret.args.data[a - ret.args.pos.lo + 1]
              ELSE ReadByte(chip.mem, a) = ReadByte(calls[1].mem, a)

\* C15: Ioctl ChipErase erases [0, capacity) block by block and returns the
\* status of the erase; ReadJedecId with a non-null argument reads the id
\* from the chip again and stores its 24 bits in the argument; every other
\* command code returns NotSupported, puts nothing on the bus and leaves
\* the handle and the chip as they were.
C15_IoctlCommands ==
    ret.fn = "yDev_25q_Ioctl"
        => IF ret.args.cmd = YDEV_25Q_IOCTL_CHIP_ERASE
           THEN /\ ret.val = YDRV_OK
                /\ EraseUnits(bus)
                      = [i \in 1..(handle.size \div YDEV_25Q_BLOCK_SIZE) |->
                           [cmd |-> YDEV_25Q_CMD_BLOCK_ERASE,
                            addr |-> (i - 1) * YDEV_25Q_BLOCK_SIZE,
                            len |-> YDEV_25Q_BLOCK_SIZE]]
                /\ chip.mem.erased = {<<0, handle.size>>}
                /\ DOMAIN chip.mem.cells = {}
                /\ handle = ret.args.h
           ELSE IF ret.args.cmd = YDEV_25Q_IOCTL_READ_JEDEC_ID
           THEN ~ret.args.argNull
                   => /\ ret.val = YDEV_OK
                      /\ ret.args.arg = chip.jedec
                      /\ \E i \in 1..Len(bus) :
                            bus[i].e = "tx" /\ bus[i].d[1] = 159
                      /\ handle = ret.args.h
           ELSE /\ ret.val = YDEV_NOT_SUPPORTED
                /\ bus = <<>>
                /\ handle = ret.args.h
                /\ chip.mem = calls[1].mem

\* C15 witness: after a Write that programmed bytes, Ioctl SectorErase has
\* returned NotSupported.
C15_Witness ==
    /\ ret.fn = "yDev_25q_Ioctl"
    /\ ret.args.cmd = YDEV_25Q_IOCTL_SECTOR_ERASE
    /\ ret.val = YDEV_NOT_SUPPORTED
    /\ DOMAIN chip.mem.cells # {}
    /\ bus = <<>>

\* C17: no Read, Write or Ioctl call, whether it succeeds or fails, changes
\* the capacity or the chip type of the handle.
C17_CapacityAndTypeFixed ==
    [][handle'.size = handle.size /\ handle'.chip_type = handle.chip_type]_vars

\* C17 witness: an Ioctl with an undeclared effect (ClearProtection) has
\* returned on a handle on which an earlier Read or Write was rejected; the
\* handle still has the capacity and type of the W25Q16 table entry.
C17_Witness ==
    /\ ret.fn = "yDev_25q_Ioctl"
    /\ ret.args.cmd = YDEV_25Q_IOCTL_CLEAR_PROTECTION
    /\ handle.errno = YDEV_25Q_ERRNO_INVALID_ADDRESS
    /\ handle.chip_type = YDEV_25Q_TYPE_W25Q16
    /\ handle.size = CapacityOf(chip.jedec)

(***************************************************************************)
(* The base handle after Deinit                                            *)
(***************************************************************************)
\* C26: after dispatch Deinit has returned YDEV_OK the base handle is
\* zeroed: table index, timeout and error field are 0.
C26_DeinitZeroesHandle ==
    (ret.fn = "yDevDeinitStatic" /\ ret.val = YDEV_OK)
        => /\ handle.index = 0
           /\ handle.timeOutMs = 0
           /\ handle.errno = 0

(***************************************************************************)
(* Ceilings of the waits a call makes                                      *)
(***************************************************************************)
YDEV_25Q_TIMEOUT_CHIP_ERASE == 40000

\* the WaitBusy events among bus events
Waits(events) == SelectSeq(events, LAMBDA ev : ev.e = "wait")

\* C25: the waits of Read and Write use the page-program ceiling of 5 ms,
\* the waits of the block erases of a chip erase the 2000 ms ceiling, and
\* the final wait of Ioctl ChipErase the chip-erase ceiling of 40000 ms.
C25_WaitCeilings ==
    /\ ret.fn \in {"yDev_25q_Read", "yDev_25q_Write"}
          => \A i \in 1..Len(Waits(bus)) :
                Waits(bus)[i].ms = YDEV_25Q_TIMEOUT_PAGE_PROGRAM
    /\ (ret.fn = "yDev_25q_Ioctl" /\ ret.args.cmd = YDEV_25Q_IOCTL_CHIP_ERASE
           /\ ret.val = YDRV_OK)
          => LET w == Waits(bus) IN
             /\ Len(w) > 0
             /\ \A i \in 1..(Len(w) - 1) :
                   w[i].ms = YDEV_25Q_TIMEOUT_BLOCK_ERASE_64K
             /\ w[Len(w)].ms = YDEV_25Q_TIMEOUT_CHIP_ERASE

(***************************************************************************)
(* Write and Erase pass by pass with a running time source: any transfer   *)
(* may end short on the handle's timeout and any WaitBusy may end on its   *)
(* ceiling.  fail names the step of the pass that fails, 0 for none.  bus  *)
(* collects the events of the call in progress.  The application places    *)
(* the cursor before every Write.  The specification follows the bus and   *)
(* the handle: the chip keeps its erased contents, so every page read      *)
(* that completes returns 0xFF bytes.                                      *)
(***************************************************************************)

\* yDev25q_WritePage without the wait that opens it
WritePageOutcome_NoFirstWait(h, c, start_address, write_data, uninit, fail) ==
    LET ms == YDEV_25Q_TIMEOUT_PAGE_PROGRAM
        wren == <<YDEV_25Q_CMD_WRITE_ENABLE>> \o uninit
        cmd == <<YDEV_25Q_CMD_PAGE_PROGRAM>>
                  \o AddressBytes(U32Low24(start_address))
        out(events, errno, st) ==
            [h |-> IF st = YDRV_OK THEN h ELSE [h EXCEPT !.errno = errno],
             bus |-> events, st |-> st]
    IN  CASE fail = 2 ->
               out(<<Cs(0), TxShort(wren, 3), Cs(1)>>,
                   YDEV_25Q_ERRNO_SPI_ERROR, YDRV_ERROR)
          [] fail = 3 ->
               out(<<Cs(0), Tx(wren), TxShort(cmd, 3), Cs(1)>>,
                   YDEV_25Q_ERRNO_SPI_ERROR, YDRV_ERROR)
          [] fail = 4 ->
               out(<<Cs(0), Tx(wren), Tx(cmd),
                     TxShort(write_data, YDEV_25Q_PAGE_SIZE - 1), Cs(0)>>,
                   YDEV_25Q_ERRNO_SPI_ERROR, YDRV_ERROR)
          [] fail = 5 ->
               out(<<Cs(0), Tx(wren), Tx(cmd), Tx(write_data),
                     Wait(ms, YDRV_TIMEOUT)>>,
                   YDEV_25Q_ERRNO_TIMEOUT, YDRV_TIMEOUT)
          [] OTHER ->
               out(<<Cs(0), Tx(wren), Tx(cmd), Tx(write_data),
                     Wait(ms, YDRV_OK), Cs(1)>>, 0, YDRV_OK)

\* yDev25q_WritePage (yDev_25q.c:746-799) with its five failure returns:
\* 1 the opening wait, 2 the Write-Enable transfer, 3 the Page-Program
\* command, 4 the data, 5 the closing wait
WritePageOutcome(h, c, start_address, write_data, uninit, fail) ==
    LET ms == YDEV_25Q_TIMEOUT_PAGE_PROGRAM
        wren == <<YDEV_25Q_CMD_WRITE_ENABLE>> \o uninit
        cmd == <<YDEV_25Q_CMD_PAGE_PROGRAM>>
                  \o AddressBytes(U32Low24(start_address))
        out(events, errno, st) ==
            [h |-> IF st = YDRV_OK THEN h ELSE [h EXCEPT !.errno = errno],
             bus |-> events, st |-> st]
    IN  CASE fail = 1 ->
               out(<<Wait(ms, YDRV_TIMEOUT)>>,
                   YDEV_25Q_ERRNO_TIMEOUT, YDRV_TIMEOUT)
          [] fail = 2 ->
               out(<<Wait(ms, YDRV_OK), Cs(0), TxShort(wren, 3), Cs(1)>>,
                   YDEV_25Q_ERRNO_SPI_ERROR, YDRV_ERROR)
          [] fail = 3 ->
               out(<<Wait(ms, YDRV_OK), Cs(0), Tx(wren), TxShort(cmd, 3),
                     Cs(1)>>,
                   YDEV_25Q_ERRNO_SPI_ERROR, YDRV_ERROR)
          [] fail = 4 ->
               out(<<Wait(ms, YDRV_OK), Cs(0), Tx(wren), Tx(cmd),
                     TxShort(write_data, YDEV_25Q_PAGE_SIZE - 1), Cs(0)>>,
                   YDEV_25Q_ERRNO_SPI_ERROR, YDRV_ERROR)
          [] fail = 5 ->
               out(<<Wait(ms, YDRV_OK), Cs(0), Tx(wren), Tx(cmd),
                     Tx(write_data), Wait(ms, YDRV_TIMEOUT)>>,
                   YDEV_25Q_ERRNO_TIMEOUT, YDRV_TIMEOUT)
          [] OTHER ->
               out(<<Wait(ms, YDRV_OK), Cs(0), Tx(wren), Tx(cmd),
                     Tx(write_data), Wait(ms, YDRV_OK), Cs(1)>>, 0, YDRV_OK)

\* yDev_25q_Read of one page as Write calls it (yDev_25q.c:339-419) with
\* its failure returns: 6 the wait, 7 the command transfer, 8 the byte
\* loop timing out after 100 bytes
ReadPageOutcome(h, c, fail) ==
    LET ms == YDEV_25Q_TIMEOUT_PAGE_PROGRAM
        ok == yDev_25q_Read(h, c, FALSE, YDEV_25Q_PAGE_SIZE)
        cmd == <<YDEV_25Q_CMD_READ_DATA>> \o AddressBytes(U32Low24(h.address))
    IN  CASE ~InRange(h, YDEV_25Q_PAGE_SIZE) -> ok
          [] fail = 6 ->
               [h |-> [h EXCEPT !.errno = YDEV_25Q_ERRNO_TIMEOUT], c |-> c,
                bus |-> <<Wait(ms, YDRV_TIMEOUT)>>, val |-> -1, buf |-> <<>>]
          [] fail = 7 ->
               [h |-> [h EXCEPT !.errno = YDEV_25Q_ERRNO_SPI_ERROR], c |-> c,
                bus |-> <<Wait(ms, YDRV_OK), Cs(1), TxShort(cmd, 3), Cs(0)>>,
                val |-> -1, buf |-> <<>>]
          [] fail = 8 ->
               [h |-> [h EXCEPT !.address = U32Add(@, 100),
                                !.errno = YDEV_25Q_ERRNO_TIMEOUT],
                c |-> ok.c,
                bus |-> <<Wait(ms, YDRV_OK), Cs(1), Tx(cmd),
                          Rd(SubSeq(ok.buf, 1, 100)), Cs(0)>>,
                val |-> 100, buf |-> SubSeq(ok.buf, 1, 100)]
          [] OTHER -> ok

\* one pass of the while loop of yDev_25q_Write continuing with the next
\* page after a failure
Write_PassResult_Continue(h, c, l, uninit, fail) ==
    LET page_offset == l.current_address.lo % YDEV_25Q_PAGE_SIZE
        write_size == Min(YDEV_25Q_PAGE_SIZE - page_offset,
                          Len(l.buffer) - l.total_written)
        chunk == SubSeq(l.buffer, l.total_written + 1,
                        l.total_written + write_size)
        w == WritePageOutcome(h, c, l.current_address, chunk, uninit, fail)
        total == l.total_written + write_size
        current == U32Add(l.current_address, write_size)
        h1 == IF total >= Len(l.buffer) THEN [w.h EXCEPT !.address = current]
              ELSE w.h
    IN  [h |-> h1, bus |-> w.bus,
         loc |-> [l EXCEPT !.total_written = total,
                           !.current_address = current,
                           !.fail = IF w.st # YDRV_OK THEN fail ELSE @,
                           !.at = IF total >= Len(l.buffer)
                                  THEN "WriteDone" ELSE "WriteLoop",
                           !.val = IF w.st # YDRV_OK \/ l.val = -1 THEN -1
                                   ELSE total]]

\* one pass of the while loop of yDev_25q_Write (yDev_25q.c:458-507), and
\* the return when the pass fails or was the last one
Write_PassResult(h, c, l, uninit, fail) ==
    LET page_offset == l.current_address.lo % YDEV_25Q_PAGE_SIZE
        write_size == Min(YDEV_25Q_PAGE_SIZE - page_offset,
                          Len(l.buffer) - l.total_written)
        chunk == SubSeq(l.buffer, l.total_written + 1,
                        l.total_written + write_size)
        partial == page_offset # 0 \/ write_size # YDEV_25Q_PAGE_SIZE
        page_start == [l.current_address EXCEPT !.lo = @ - page_offset]
        saved_address == h.address
        r == ReadPageOutcome([h EXCEPT !.address = page_start], c, fail)
        page_buffer ==
            [i \in 1..YDEV_25Q_PAGE_SIZE |->
               IF i > page_offset /\ i <= page_offset + write_size
               THEN chunk[i - page_offset] ELSE r.buf[i]]
        w == IF partial
             THEN WritePageOutcome(r.h, r.c, page_start, page_buffer, uninit,
                                   fail)
             ELSE WritePageOutcome(h, c, l.current_address, chunk, uninit,
                                   fail)
        total == l.total_written + write_size
        current == U32Add(l.current_address, write_size)
        failed(hh, events, errno) ==
            [h |-> [hh EXCEPT !.errno = errno], bus |-> events,
             loc |-> [l EXCEPT !.at = "WriteDone", !.fail = fail, !.val = -1]]
    IN  IF partial /\ r.val # YDEV_25Q_PAGE_SIZE
        THEN failed(r.h, r.bus, YDEV_25Q_ERRNO_SPI_ERROR)
        ELSE IF w.st # YDRV_OK
        THEN failed(w.h, (IF partial THEN r.bus ELSE <<>>) \o w.bus,
                    YDEV_25Q_ERRNO_WRITE_FAIL)
        ELSE [h |-> IF total >= Len(l.buffer)
                    THEN [w.h EXCEPT !.address = current]
                    ELSE [w.h EXCEPT !.address = saved_address],
              bus |-> (IF partial THEN r.bus ELSE <<>>) \o w.bus,
              loc |-> [l EXCEPT !.total_written = total,
                                !.current_address = current,
                                !.at = IF total >= Len(l.buffer)
                                       THEN "WriteDone" ELSE "WriteLoop",
                                !.val = IF total >= Len(l.buffer)
                                        THEN total ELSE 0]]

WriteFails == 0..8

\* cursors the application writes from: a page start, and 100 bytes before
\* the end of the chip
AbortCursors == {SizeT(256), SizeT(4194204)}

\* handle.address = position, then yDev_25q_Write up to its loop
\* (yDev_25q.c:430-455)
Write_Enter ==
    /\ loc.at = "idle"
    /\ \E buffer \in PageData, position \in AbortCursors :
        LET h == [handle EXCEPT !.address = position]
            l == [at |-> "WriteLoop", pos |-> position,
                  buffer |-> buffer, total_written |-> 0,
                  current_address |-> position, fail |-> 0, val |-> 0]
        IN  IF ~InRange(h, Len(buffer))
            THEN /\ handle' = [h EXCEPT
                                 !.errno = YDEV_25Q_ERRNO_INVALID_ADDRESS]
                 /\ loc' = [l EXCEPT !.at = "WriteDone", !.val = -1]
            ELSE /\ loc' = l
                 /\ handle' = h
    /\ bus' = <<>>
    /\ UNCHANGED <<ops, ret, calls, scanned, chip, ydev_time_ms>>

Write_Pass ==
    /\ loc.at = "WriteLoop"
    /\ \E uninit \in UninitBytes, fail \in WriteFails :
        LET r == Write_PassResult(handle, chip, loc, uninit, fail) IN
        /\ handle' = r.h
        /\ bus' = bus \o r.bus
        /\ loc' = r.loc
    /\ UNCHANGED <<ops, ret, calls, scanned, chip, ydev_time_ms>>

\* the call returns to the application
Abort_Return ==
    /\ loc.at \in {"WriteDone", "EraseDone"}
    /\ ret' = IF loc.at = "WriteDone"
              THEN FlashRet("yDev_25q_Write",
                            [pos |-> loc.pos, size |-> Len(loc.buffer)],
                            loc.val)
              ELSE FlashRet("yDev25q_Erase",
                            [pos |-> SizeT(loc.start_address),
                             size |-> loc.size], loc.result)
    /\ loc' = Idle
    /\ bus' = <<>>
    /\ UNCHANGED <<ops, handle, calls, scanned, chip, ydev_time_ms>>

\* one pass of the while loop of yDev25q_Erase (yDev_25q.c:845-939), any
\* of its transfers and waits failing
Abort_ErasePass ==
    /\ loc.at = "EraseLoop"
    /\ \E fail \in 0..4 :
        LET block == UseBlock(loc.current_address, loc.remaining_size)
            erase_size == IF block THEN YDEV_25Q_BLOCK_SIZE
                                   ELSE YDEV_25Q_SECTOR_SIZE
            r == IF block THEN BlockErase(loc.current_address, fail)
                          ELSE SectorErase(loc.current_address, fail)
            last == loc.remaining_size - erase_size <= 0
        IN  /\ bus' = bus \o r.bus
            /\ IF r.st # YDRV_OK
               THEN /\ handle' = [handle EXCEPT !.errno = r.errno]
                    /\ loc' = [loc EXCEPT !.at = "EraseDone", !.result = r.st]
               ELSE /\ UNCHANGED handle
                    /\ loc' = [loc EXCEPT
                          !.current_address = @ + erase_size,
                          !.remaining_size = @ - erase_size,
                          !.at = IF last THEN "EraseDone" ELSE "EraseLoop",
                          !.result = IF last THEN YDRV_OK ELSE "none"]
    /\ UNCHANGED <<ops, ret, calls, scanned, chip, ydev_time_ms>>

\* the windows Erase is entered with: two blocks, and two sectors across a
\* block boundary
Abort_Erase ==
    \E w \in {<<0, 2 * YDEV_25Q_BLOCK_SIZE>>,
              <<YDEV_25Q_BLOCK_SIZE - YDEV_25Q_SECTOR_SIZE,
                2 * YDEV_25Q_SECTOR_SIZE>>} :
        Erase_Enter(w[1], w[2])

AbortInit ==
    /\ ops = <<FullOps(YDEV_TYPE_25Q)>>
    /\ handle = InitialisedHandle(YDEV_25Q_TYPE_W25Q16)
    /\ ret = NoRet
    /\ calls = <<>>
    /\ scanned = 0
    /\ chip = [busy |-> FALSE, wel |-> FALSE,
               jedec |-> IdentifyChip25q[YDEV_25Q_TYPE_W25Q16 + 1],
               mem |-> [NoMemory EXCEPT
                          !.erased = {<<0, CapacityOf(IdentifyChip25q[1])>>}]]
    /\ bus = <<>>
    /\ ydev_time_ms = 0
    /\ loc = Idle

AbortNext ==
    \/ Write_Enter \/ Write_Pass
    \/ Abort_Erase \/ Abort_ErasePass
    \/ Abort_Return

SpecAbort == AbortInit /\ [][AbortNext]_vars

\* a bus event that ended a step early: a wait that ran to its ceiling, a
\* transfer that moved fewer bytes than the 1, 4 or 256 asked for
IsFailure(ev) ==
    \/ ev.e = "wait" /\ ev.st # YDRV_OK
    \/ ev.e = "tx" /\ ev.n \notin {1, 4, YDEV_25Q_PAGE_SIZE}
    \/ ev.e = "rd" /\ ev.n # YDEV_25Q_PAGE_SIZE

\* a command frame on the bus: at most an opcode and three address bytes
IsCommand(ev, opcodes) ==
    /\ ev.e = "tx"
    /\ ev.n \in 1..4
    /\ ev.d[1] \in opcodes

ProgramOrErase ==
    {YDEV_25Q_CMD_PAGE_PROGRAM, YDEV_25Q_CMD_SECTOR_ERASE,
     YDEV_25Q_CMD_BLOCK_ERASE}

\* C24: when WritePage fails inside Write, the handle's errno after the
\* call names the trigger: Timeout for a wait that ran out (steps 1, 5),
\* SpiError for a short transfer (steps 2, 3, 4).
C24_ErrnoNamesTrigger ==
    loc.at = "WriteDone"
        => /\ loc.fail \in {1, 5} => handle.errno = YDEV_25Q_ERRNO_TIMEOUT
           /\ loc.fail \in {2, 3, 4} => handle.errno = YDEV_25Q_ERRNO_SPI_ERROR

\* C23: once a step of Write or Erase ends on a short transfer or a wait
\* timeout, nothing but chip-select changes follows on the bus in that call
\* (no Write-Enable, no program or erase command, no further page or unit)
\* and the call ends in failure.
C23_NoRetry ==
    \A i \in 1..Len(bus) :
        IsFailure(bus[i])
            => /\ \A j \in (i + 1)..Len(bus) : bus[j].e = "cs"
               /\ loc.at \in {"WriteDone", "EraseDone"}
               /\ loc.at = "WriteDone" => loc.val = -1
               /\ loc.at = "EraseDone" => loc.result # YDRV_OK

\* a Write of two pages whose second page failed: one page programmed, one
\* Page-Program command on the bus
C23_Witness ==
    /\ loc.at = "WriteDone"
    /\ loc.total_written = YDEV_25Q_PAGE_SIZE
    /\ loc.fail \in 1..5
    /\ loc.val = -1
    /\ \E i \in 1..Len(bus) : IsFailure(bus[i])

\* C22: every Read-Data, Page-Program, sector-erase and block-erase command
\* of a call is preceded in that call by a WaitBusy that returned ready,
\* with no program or erase command between that wait and the command;
\* this holds in calls that follow an aborted call as well.
C22_WaitBeforeCommand ==
    \A i \in 1..Len(bus) :
        IsCommand(bus[i], ProgramOrErase \cup {YDEV_25Q_CMD_READ_DATA})
            => \E j \in 1..(i - 1) :
                  /\ bus[j].e = "wait"
                  /\ bus[j].st = YDRV_OK
                  /\ \A k \in (j + 1)..(i - 1) :
                        ~IsCommand(bus[k], ProgramOrErase)

\* a call that follows a failed one has sent a Page-Program command
C22_Witness ==
    /\ \/ ret.fn = "yDev_25q_Write" /\ ret.val = -1
       \/ ret.fn = "yDev25q_Erase" /\ ret.val \in {YDRV_TIMEOUT, YDRV_ERROR}
    /\ handle.errno \in {YDEV_25Q_ERRNO_TIMEOUT, YDEV_25Q_ERRNO_WRITE_FAIL,
                         YDEV_25Q_ERRNO_SPI_ERROR}
    /\ \E i \in 1..Len(bus) :
          IsCommand(bus[i], {YDEV_25Q_CMD_PAGE_PROGRAM})

(***************************************************************************)
(* Chip-select around the transfers of a call.  yDrvSpiCsControl drives    *)
(* the pin low, which selects the chip, for a state other than 0 and high  *)
(* for state 0 (yDrv_spi.h:254-271).                                       *)
(***************************************************************************)
CS_ASSERTED == 1
CS_DEASSERTED == 0

\* the chip-select events among the first n bus events
CsBefore(events, n) ==
    SelectSeq(SubSeq(events, 1, n), LAMBDA ev : ev.e = "cs")

\* the level chip-select has after the first n bus events; deasserted when
\* the call has not driven it yet
CsLevel(events, n) ==
    LET cs == CsBefore(events, n) IN
    IF Len(cs) = 0 THEN CS_DEASSERTED ELSE cs[Len(cs)].v

\* every byte of events moves while chip-select is asserted, and
\* chip-select is deasserted after the last event
Bracketed(events) ==
    /\ \A i \in 1..Len(events) :
          (events[i].e \in {"tx", "rd"} /\ events[i].n > 0)
              => CsLevel(events, i) = CS_ASSERTED
    /\ CsLevel(events, Len(events)) = CS_DEASSERTED

\* C21: every command, address and data byte of a call is transferred
\* while chip-select is asserted, and chip-select is deasserted when the
\* call returns, on success and on every error path.
C21_ChipSelectBrackets ==
    ret.fn \in {"yDev_25q_Read", "yDev_25q_Write", "yDev_25q_Ioctl"}
        => Bracketed(bus)

\* the part of it that holds: the frames of Read
C21_ReadBrackets ==
    ret.fn = "yDev_25q_Read" => Bracketed(bus)

(***************************************************************************)
(* The bus trace of one yDev25q_WritePage                                  *)
(***************************************************************************)
\* the positions of the Page-Program commands among events
ProgramAt(events) ==
    { i \in 1..Len(events) :
        /\ events[i].e = "tx"
        /\ events[i].n = 4
        /\ events[i].d[1] = YDEV_25Q_CMD_PAGE_PROGRAM
        /\ i < Len(events)
        /\ events[i + 1].e = "tx"
        /\ events[i + 1].n = YDEV_25Q_PAGE_SIZE }

\* C28: every successful WritePage is, in order: WaitBusy ready,
\* chip-select asserted, the Write-Enable opcode 0x06, Page-Program 0x02
\* with its three address bytes, exactly 256 data bytes, WaitBusy ready,
\* chip-select deasserted.
C28_WritePageTrace ==
    (ret.fn = "yDev_25q_Write" /\ ret.val > 0)
        => \A i \in ProgramAt(bus) :
              /\ i > 3
              /\ i + 3 <= Len(bus)
              /\ bus[i - 3] = Wait(YDEV_25Q_TIMEOUT_PAGE_PROGRAM, YDRV_OK)
              /\ bus[i - 2] = Cs(CS_ASSERTED)
              /\ bus[i - 1] = Tx(<<YDEV_25Q_CMD_WRITE_ENABLE>>)
              /\ bus[i + 2] = Wait(YDEV_25Q_TIMEOUT_PAGE_PROGRAM, YDRV_OK)
              /\ bus[i + 3] = Cs(CS_DEASSERTED)

\* the part of it that holds: the order of the steps, and a Write-Enable
\* opcode ahead of every Page-Program
C28_WritePageOrder ==
    (ret.fn = "yDev_25q_Write" /\ ret.val > 0)
        => /\ ProgramAt(bus) # {}
           /\ \A i \in ProgramAt(bus) :
                 /\ i > 3
                 /\ i + 3 <= Len(bus)
                 /\ bus[i - 3] = Wait(YDEV_25Q_TIMEOUT_PAGE_PROGRAM, YDRV_OK)
                 /\ bus[i - 2].e = "cs"
                 /\ bus[i - 1].e = "tx"
                 /\ bus[i - 1].d[1] = YDEV_25Q_CMD_WRITE_ENABLE
                 /\ bus[i + 2] = Wait(YDEV_25Q_TIMEOUT_PAGE_PROGRAM, YDRV_OK)
                 /\ bus[i + 3].e = "cs"

(***************************************************************************)
(* The pages a Write programs                                              *)
(***************************************************************************)
\* the positions of the Page-Program commands among events, ascending
ProgramSeq(events) ==
    SelectSeq([i \in 1..Len(events) |-> i],
              LAMBDA i : i \in ProgramAt(events))

\* whether events[i] is the Read-Data command of page_start followed by the
\* 256 bytes read
ReadsPage(events, i, page_start) ==
    /\ i >= 1
    /\ events[i].e = "tx"
    /\ events[i].d = <<YDEV_25Q_CMD_READ_DATA>> \o AddressBytes(page_start)
    /\ events[i + 1].e = "rd"
    /\ events[i + 1].n = YDEV_25Q_PAGE_SIZE

\* C29: a successful Write over [cursor, cursor + size) programs every
\* 256-byte page that intersects the range exactly once, in ascending order
\* and at the page's start address; a page the range covers whole is
\* programmed with the caller's bytes and is not read first, a page it
\* covers in part is read first and programmed with the bytes read,
\* overlaid with the caller's bytes at their offset in the page.
C29_PagesOfWrite ==
    (ret.fn = "yDev_25q_Write" /\ ret.val = ret.args.size)
        => LET cursor == ret.args.pos.hi * 65536 + ret.args.pos.lo
               size == ret.args.size
               first == cursor \div YDEV_25Q_PAGE_SIZE
               last == (cursor + size - 1) \div YDEV_25Q_PAGE_SIZE
               at == ProgramSeq(bus)
               whole(p) ==
                   /\ p * YDEV_25Q_PAGE_SIZE >= cursor
                   /\ (p + 1) * YDEV_25Q_PAGE_SIZE <= cursor + size
               partial == { p \in first..last : ~whole(p) }
           IN  /\ Len(at) = last - first + 1
               /\ Cardinality(partial)
                     = Len(SelectSeq(bus, LAMBDA ev : ev.e = "rd"))
               /\ \A k \in 1..Len(at) :
                     LET p == first + k - 1
                         page_start == p * YDEV_25Q_PAGE_SIZE
                         data == bus[at[k] + 1].d
                     IN  /\ WireAddress(bus[at[k]].d) = page_start
                         /\ whole(p) =>
                               \A j \in 1..YDEV_25Q_PAGE_SIZE :
                                  data[j] = ret.args.data[page_start + j - cursor]
                         /\ ~whole(p) =>
                               /\ ReadsPage(bus, at[k] - 6, page_start)
                               /\ \A j \in 1..YDEV_25Q_PAGE_SIZE :
                                     LET a == page_start + j - 1 IN
                                     data[j] =
                                        IF a >= cursor /\ a < cursor + size
                                        THEN ret.args.data[a - cursor + 1]
                                        ELSE bus[at[k] - 5].d[j]

\* C29 witness: 300 bytes from cursor 254 programmed as pages 0, 1 and 2,
\* page 1 without a read
C29_Witness ==
    /\ ret.fn = "yDev_25q_Write"
    /\ ret.val = 300
    /\ ret.args.pos = SizeT(254)
    /\ Len(ProgramSeq(bus)) = 3
    /\ bus[ProgramSeq(bus)[2] - 4].e = "cs"
    /\ bus[ProgramSeq(bus)[2] - 5].e = "wait"

(***************************************************************************)
(* yDevInitStatic from two execution contexts, each on its own handle, one *)
(* statement group per step.  handle and loc hold one entry per context;   *)
(* idx and dev_ops are locals of the call (yDev.c:94-107), the table is    *)
(* the only thing the contexts share.                                      *)
(***************************************************************************)
Contexts == {"task", "isr"}

\* a GPIO record, a USART record without init, a second USART record
SharedTable ==
    << FullOps(YDEV_TYPE_GPIO),
       [FullOps(YDEV_TYPE_USART) EXCEPT !.init = NULL],
       FullOps(YDEV_TYPE_USART) >>

NotCalling ==
    [at |-> "idle", idx |-> 0, type |-> YDEV_TYPE_MAX,
     out |-> [status |-> YDEV_OK, errno |-> 0],
     h0 |-> [index |-> 0, timeOutMs |-> 0, errno |-> 0], val |-> YDEV_OK]

\* yDevInitStatic(config, h) as one uninterrupted call
InitAlone(h, type, out) ==
    LET idx == FirstMatch(type) IN
    IF idx >= 0
    THEN IF OpsAt(idx).init # NULL
         THEN [h |-> [InitMatched(h, idx) EXCEPT !.errno = out.errno],
               val |-> out.status]
         ELSE [h |-> InitMatched(h, idx), val |-> YDEV_NOT_SUPPORTED]
    ELSE [h |-> [h EXCEPT !.errno = YDEV_ERRNO_NOT_FOUND],
          val |-> InitNoMatchStatus]

ShareInit ==
    /\ ops = SharedTable
    /\ handle = [c \in Contexts |-> [index |-> 0, timeOutMs |-> 0, errno |-> 0]]
    /\ ret = NoRet
    /\ calls = <<>>
    /\ scanned = 0
    /\ chip = NoChip
    /\ bus = <<>>
    /\ ydev_time_ms = 0
    /\ loc = [c \in Contexts |-> NotCalling]

\* the call is entered: dev_ops = (&ydev_start_ops) + 1, idx = 0
Share_Enter(c) ==
    /\ loc[c].at = "idle"
    /\ \E type \in Types, out \in StubInitOutcomes :
          loc' = [loc EXCEPT ![c] = [at |-> "scan", idx |-> 0, type |-> type,
                                     out |-> out, h0 |-> handle[c],
                                     val |-> YDEV_OK]]
    /\ UNCHANGED <<ops, handle, ret, calls, scanned, chip, bus, ydev_time_ms>>

\* one pass of the for loop with the loop counter shared by the contexts
Share_Scan_StaticIdx(c) ==
    /\ loc[c].at = "scan"
    /\ IF scanned >= Len(ops)
       THEN /\ loc' = [loc EXCEPT ![c].at = "notfound"]
            /\ scanned' = 0
       ELSE IF ops[scanned + 1].type = loc[c].type
       THEN /\ loc' = [loc EXCEPT ![c].at = "match", ![c].idx = scanned]
            /\ scanned' = 0
       ELSE /\ loc' = [loc EXCEPT ![c].idx = scanned + 1]
            /\ scanned' = scanned + 1
    /\ UNCHANGED <<ops, handle, ret, calls, chip, bus, ydev_time_ms>>

\* one pass of the for loop: the test dev_ops < &ydev_end_ops, the
\* comparison of the tags, dev_ops++, idx++
Share_Scan(c) ==
    /\ loc[c].at = "scan"
    /\ IF loc[c].idx >= Len(ops)
       THEN loc' = [loc EXCEPT ![c].at = "notfound"]
       ELSE IF ops[loc[c].idx + 1].type = loc[c].type
       THEN loc' = [loc EXCEPT ![c].at = "match"]
       ELSE loc' = [loc EXCEPT ![c].idx = @ + 1]
    /\ UNCHANGED <<ops, handle, ret, calls, scanned, chip, bus, ydev_time_ms>>

\* the three stores into the handle on a match
Share_Match(c) ==
    /\ loc[c].at = "match"
    /\ handle' = [handle EXCEPT ![c] = InitMatched(@, loc[c].idx)]
    /\ loc' = [loc EXCEPT ![c].at = "call"]
    /\ UNCHANGED <<ops, ret, calls, scanned, chip, bus, ydev_time_ms>>

\* the driver's init through the record's pointer, or YDEV_NOT_SUPPORTED
Share_CallInit(c) ==
    /\ loc[c].at = "call"
    /\ IF ops[loc[c].idx + 1].init # NULL
       THEN /\ handle' = [handle EXCEPT ![c].errno = loc[c].out.errno]
            /\ loc' = [loc EXCEPT ![c].at = "done",
                                  ![c].val = loc[c].out.status]
       ELSE /\ UNCHANGED handle
            /\ loc' = [loc EXCEPT ![c].at = "done",
                                  ![c].val = YDEV_NOT_SUPPORTED]
    /\ UNCHANGED <<ops, ret, calls, scanned, chip, bus, ydev_time_ms>>

\* the table holds no record of the type
Share_NotFound(c) ==
    /\ loc[c].at = "notfound"
    /\ handle' = [handle EXCEPT ![c].errno = YDEV_ERRNO_NOT_FOUND]
    /\ loc' = [loc EXCEPT ![c].at = "done", ![c].val = InitNoMatchStatus]
    /\ UNCHANGED <<ops, ret, calls, scanned, chip, bus, ydev_time_ms>>

Share_Return(c) ==
    /\ loc[c].at = "done"
    /\ ret' = [fn |-> "yDevInitStatic",
               args |-> [NoArgs EXCEPT !.type = loc[c].type],
               val |-> loc[c].val]
    /\ loc' = [loc EXCEPT ![c] = NotCalling]
    /\ UNCHANGED <<ops, handle, calls, scanned, chip, bus, ydev_time_ms>>

ShareNext ==
    \E c \in Contexts :
        \/ Share_Enter(c)
        \/ Share_Scan(c)
        \/ Share_Match(c)
        \/ Share_CallInit(c)
        \/ Share_NotFound(c)
        \/ Share_Return(c)

SpecShare == ShareInit /\ [][ShareNext]_vars

\* C27: the table is never written, and however the steps of the Init
\* calls of the contexts interleave, each call leaves in its handle the
\* index, timeout and error field, and returns the status, that the same
\* call gives when it runs alone.
C27_InitCallsIndependent ==
    /\ ops = SharedTable
    /\ \A c \in Contexts :
          loc[c].at = "done"
              => LET alone == InitAlone(loc[c].h0, loc[c].type, loc[c].out)
                 IN  /\ handle[c] = alone.h
                     /\ loc[c].val = alone.val

\* both calls in progress at once have finished: one on the GPIO record,
\* the other on the second USART record's type
C27_Witness ==
    /\ loc["task"].at = "done" /\ loc["isr"].at = "done"
    /\ handle["task"].index = 0 /\ loc["task"].type = YDEV_TYPE_GPIO
    /\ handle["isr"].index = 1 /\ loc["isr"].type = YDEV_TYPE_USART
    /\ handle["isr"].timeOutMs = DefaultTimeOutMs

(***************************************************************************)
(* The byte loop of yDev_25q_Read (yDev_25q.c:391-411) against the SPI     *)
(* peripheral, one register access per step.  The peripheral has a         *)
(* transmit buffer and a receive buffer of FifoDepth bytes around a shift  *)
(* register: TXE is set while the transmit buffer has room, RXNE while the *)
(* receive buffer holds a byte, and a byte that arrives at a full receive  *)
(* buffer is lost (overrun).  A flash byte is written as its distance from *)
(* the cursor the call started with.  bus holds the peripheral, chip.next  *)
(* the byte the flash shifts out next, loc the locals of the call.         *)
(***************************************************************************)
FifoDepth == 1

LL_SPI_IsActiveFlag_TXE == bus.tx < FifoDepth
LL_SPI_IsActiveFlag_RXNE == Len(bus.rx) > 0

ClockInit ==
    /\ ops = <<FullOps(YDEV_TYPE_25Q)>>
    /\ handle = InitialisedHandle(YDEV_25Q_TYPE_W25Q16)
    /\ ret = NoRet
    /\ calls = <<>>
    /\ scanned = 0
    /\ chip = [busy |-> FALSE, wel |-> FALSE, next |-> 0]
    /\ bus = [tx |-> 0, shifting |-> FALSE, rx |-> <<>>, ovr |-> FALSE,
              cs |-> CS_ASSERTED]
    /\ ydev_time_ms = 0
    /\ \E size \in ReqSizes25q \ {0} :
          loc = [at |-> "ReadLoop", size |-> size, index |-> 0, sent |-> 0,
                 buf |-> <<>>, start_time |-> 0]

\* lines 394-408: the timeout test, then yDrvSpiWriteByte; continue when
\* it returns 0
Clock_Write ==
    /\ loc.at = "ReadLoop"
    /\ IF Elapsed(loc.start_time) > handle.timeOutMs
       THEN /\ bus' = [bus EXCEPT !.cs = CS_DEASSERTED]
            /\ handle' = Read_TimeoutExit(handle, loc.index)
            /\ loc' = [loc EXCEPT !.at = "ReadDone"]
       ELSE IF LL_SPI_IsActiveFlag_TXE
       THEN /\ bus' = [bus EXCEPT !.tx = @ + 1]
            /\ loc' = [loc EXCEPT !.at = "ReadByte", !.sent = @ + 1]
            /\ UNCHANGED handle
       ELSE UNCHANGED <<handle, bus, loc>>
    /\ UNCHANGED <<ops, ret, calls, scanned, chip, ydev_time_ms>>

\* lines 410-418: yDrvSpiReadByte, index += len, the loop test, and the
\* return when index has reached size
Clock_Read ==
    /\ loc.at = "ReadByte"
    /\ LET len == IF LL_SPI_IsActiveFlag_RXNE THEN 1 ELSE 0
           index == loc.index + len
           buf == IF len = 1 THEN Append(loc.buf, Head(bus.rx)) ELSE loc.buf
           rx == IF len = 1 THEN Tail(bus.rx) ELSE bus.rx
       IN  IF index < loc.size
           THEN /\ loc' = [loc EXCEPT !.at = "ReadLoop", !.index = index,
                                      !.buf = buf]
                /\ bus' = [bus EXCEPT !.rx = rx]
                /\ UNCHANGED handle
           ELSE /\ loc' = [loc EXCEPT !.at = "ReadDone", !.index = index,
                                      !.buf = buf]
                /\ bus' = [bus EXCEPT !.rx = rx, !.cs = CS_DEASSERTED]
                /\ handle' = [handle EXCEPT !.address = U32Add(@, index)]
    /\ UNCHANGED <<ops, ret, calls, scanned, chip, ydev_time_ms>>

\* the peripheral moves a byte from the transmit buffer to the shift
\* register
Spi_Load ==
    /\ bus.tx > 0
    /\ ~bus.shifting
    /\ bus' = [bus EXCEPT !.tx = @ - 1, !.shifting = TRUE]
    /\ UNCHANGED <<dispVars, chip, ydev_time_ms, loc>>

\* eight clocks later the dummy byte is out and the flash's next byte is in
Spi_Shift ==
    /\ bus.shifting
    /\ IF Len(bus.rx) < FifoDepth
       THEN bus' = [bus EXCEPT !.shifting = FALSE, !.rx = Append(@, chip.next)]
       ELSE bus' = [bus EXCEPT !.shifting = FALSE, !.ovr = TRUE]
    /\ chip' = [chip EXCEPT !.next = @ + 1]
    /\ UNCHANGED <<dispVars, ydev_time_ms, loc>>

Clock_Return ==
    /\ loc.at = "ReadDone"
    /\ ret' = FlashRet("yDev_25q_Read",
                       [size |-> loc.size, sent |-> loc.sent, buf |-> loc.buf],
                       loc.index)
    /\ loc' = Idle
    /\ UNCHANGED <<ops, handle, calls, scanned, chip, bus, ydev_time_ms>>

ClockNext ==
    \/ Clock_Write \/ Clock_Read \/ Clock_Return
    \/ Spi_Load \/ Spi_Shift
    \/ Tick

SpecClock == ClockInit /\ [][ClockNext]_vars

\* C30: whatever the order of the transmit-ready and receive-ready events,
\* Read sends exactly one dummy byte per byte it captures and buffer[i] is
\* the flash byte at old cursor + i for every i below the returned count.
C30_OneDummyPerByte ==
    loc.at = "ReadDone"
        => /\ loc.sent = loc.index
           /\ \A i \in 1..loc.index : loc.buf[i] = i - 1

\* the part of it that holds: the bytes captured are in flash order as
\* long as the receive buffer never overran
C30_InOrderUnlessOverrun ==
    (loc.at = "ReadDone" /\ ~bus.ovr)
        => \A i \in 1..loc.index : loc.buf[i] = i - 1

\* a dummy byte sent again before the response to the one before it was
\* captured pushes a flash byte out of the receive buffer
C30_ByteSkipped ==
    loc.at = "ReadDone" => \A i \in 1..loc.index : loc.buf[i] = i - 1

\* C31: a Write that returns -1, from the bounds check, from the read of a
\* partial page or from a WritePage, leaves the cursor where it was before
\* the call.
C31_FailedWriteKeepsCursor ==
    (loc.at = "WriteDone" /\ loc.val = -1)
        => handle.address = loc.pos

\* the part of it that holds: a Write rejected by the bounds check keeps
\* the cursor
C31_RejectedWriteKeepsCursor ==
    (loc.at = "WriteDone" /\ loc.val = -1 /\ loc.fail = 0)
        => handle.address = loc.pos

(***************************************************************************)
(* The loop of yDev25q_Erase as a count-down                               *)
(***************************************************************************)
\* the end of the erased window: start + size rounded up to a whole sector
AlignedEnd(start_address, size) ==
    ((start_address + size + YDEV_25Q_SECTOR_SIZE - 1)
        \div YDEV_25Q_SECTOR_SIZE) * YDEV_25Q_SECTOR_SIZE

\* C32: in an Erase that passed its checks and whose waits and transfers
\* succeed, remaining_size is always a multiple of 4096 and never below 0,
\* every pass makes it smaller, and it is 0, which ends the loop, exactly
\* when current_address has reached the aligned end of the window.
C32_EraseLoopTerminates ==
    [][ (loc'.at \in {"EraseLoop", "EraseDone"}
            /\ loc'.result \in {"none", YDRV_OK})
        => /\ loc'.remaining_size % YDEV_25Q_SECTOR_SIZE = 0
           /\ loc'.remaining_size >= 0
           /\ loc'.current_address + loc'.remaining_size
                 = AlignedEnd(loc'.start_address, loc'.size)
           /\ loc.at = "EraseLoop"
                 => loc'.remaining_size < loc.remaining_size
           /\ loc'.at = "EraseDone" <=> loc'.remaining_size = 0 ]_vars

\* C32 witness: one byte before a sector end, 4097 bytes: the loop has
\* erased sectors 0 and 1 and stopped at 8192
C32_Witness ==
    /\ loc.at = "EraseDone"
    /\ loc.result = YDRV_OK
    /\ loc.start_address = 4095 /\ loc.size = 4097
    /\ loc.current_address = 8192
    /\ loc.remaining_size = 0

\* every loop that was entered comes to its end when its passes keep
\* being taken
SpecEraseFair == SpecErase /\ WF_vars(Erase_Step)
C32_LoopEnds == (loc.at = "EraseLoop") ~> (loc.at = "EraseDone")

(***************************************************************************)
(* The life of one flash handle, as src/1-app/device/src/flash.c starts    *)
(* it: yDev25qHandleStructInit, then MaxLife calls of Init, Deinit, Read,  *)
(* Write and Ioctl CHIP_ERASE in any order, with a running time source.    *)
(* The chip on the bus is a W25Q16-table part that is ready whenever it is *)
(* asked; the 4-byte JEDEC transfer of Init may end one byte short.  Only  *)
(* Read and Write move the cursor.  calls keeps the WaitBusy entry of the  *)
(* latest call with the chip type it was entered with.                     *)
(***************************************************************************)
MaxLife == 4

\* g_flash_config (flash.c:24-39): SPI1, 8 data bits, timeOutMs 5000
g_flash_config ==
    [type |-> YDEV_TYPE_25Q, timeOutMs |-> 5000,
     spiId |-> "YDRV_SPI_1", dataBits |-> 8]

\* yDev25q_WaitBusy on a chip that is ready: the switch on the table word
\* (yDev_25q.c:666-675), then the poll, which reads 0xFF on every try
\* while the SPI is closed and runs to its ceiling (yDev_25q.c:646, 680-686)
WaitBusyStatus(h, oob) ==
    IF Manufacturer(ChipWord(h.chip_type, oob)) # 239
    THEN YDRV_INVALID_PARAM
    ELSE IF ~h.spi.enabled THEN YDRV_TIMEOUT ELSE YDRV_OK

\* yDev_25q_Read (yDev_25q.c:339-419) whose WaitBusy may fail
Life_ReadCall(h, c, size, oob) ==
    LET st == WaitBusyStatus(h, oob) IN
    IF size = 0 \/ ~InRange(h, size) \/ st = YDRV_OK
    THEN yDev_25q_Read(h, c, FALSE, size)
    ELSE [h |-> [h EXCEPT !.errno = YDEV_25Q_ERRNO_TIMEOUT], c |-> c,
          bus |-> <<Wait(YDEV_25Q_TIMEOUT_PAGE_PROGRAM, st)>>,
          val |-> -1, buf |-> <<>>]

\* yDev_25q_Write (yDev_25q.c:430-513) whose first WaitBusy may fail: in
\* the page read of a partial page (476-483) or in yDev25q_WritePage
\* (497-502)
Life_WriteCall(h, c, buffer, uninit, oob) ==
    LET st == WaitBusyStatus(h, oob)
        page_offset == h.address.lo % YDEV_25Q_PAGE_SIZE
        write_size == Min(YDEV_25Q_PAGE_SIZE - page_offset, Len(buffer))
        partial == page_offset # 0 \/ write_size # YDEV_25Q_PAGE_SIZE
        page_start == [h.address EXCEPT !.lo = @ - page_offset]
        r == Life_ReadCall([h EXCEPT !.address = page_start], c,
                           YDEV_25Q_PAGE_SIZE, oob)
    IN  IF Len(buffer) = 0 \/ ~InRange(h, Len(buffer)) \/ st = YDRV_OK
        THEN yDev_25q_Write(h, c, FALSE, buffer, uninit)
        ELSE IF partial
        THEN [h |-> [r.h EXCEPT !.errno = YDEV_25Q_ERRNO_SPI_ERROR],
              c |-> c, bus |-> r.bus, val |-> -1]
        ELSE [h |-> [h EXCEPT !.errno = YDEV_25Q_ERRNO_WRITE_FAIL], c |-> c,
              bus |-> <<Wait(YDEV_25Q_TIMEOUT_PAGE_PROGRAM, st)>>,
              val |-> -1]

\* yDev_25q_Ioctl CHIP_ERASE (yDev_25q.c:541-543): yDev25q_Erase of the
\* recorded capacity; on a closed SPI the Write-Enable transfer of the
\* first pass ends with no byte sent (yDev_25q.c:855-861)
Life_EraseCall(h, c) ==
    IF h.size = 0 \/ h.spi.enabled
    THEN yDev_25q_Ioctl(h, c, YDEV_25Q_IOCTL_CHIP_ERASE, TRUE)
    ELSE LET r == BlockErase(0, 1) IN
         [h |-> [h EXCEPT !.errno = r.errno], c |-> c, bus |-> r.bus,
          val |-> r.st, arg |-> NULL]

\* whether the call enters yDev25q_WaitBusy
EntersWaitBusy(fn, h, size) ==
    CASE fn = "yDev_25q_Read" -> size > 0 /\ InRange(h, size)
      [] fn = "yDev_25q_Write" -> size > 0 /\ InRange(h, size)
      [] fn = "yDev_25q_Ioctl" -> h.size > 0 /\ h.spi.enabled
      [] OTHER -> FALSE

LifeInit ==
    /\ ops = <<FullOps(YDEV_TYPE_25Q)>>
    /\ handle = yDev25qHandleStructInit(InitialisedHandle(YDEV_25Q_TYPE_W25Q16))
    /\ ret = NoRet
    /\ calls = <<>>
    /\ scanned = 0
    /\ chip = [busy |-> FALSE, wel |-> FALSE,
               jedec |-> IdentifyChip25q[YDEV_25Q_TYPE_W25Q16 + 1],
               mem |-> [NoMemory EXCEPT
                          !.erased = {<<0, CapacityOf(IdentifyChip25q[1])>>}]]
    /\ bus = <<>>
    /\ ydev_time_ms = 0
    /\ loc = [at |-> "app", step |-> 0, deinit |-> FALSE]

\* what a call leaves behind; deinit tells that the handle has been
\* de-initialised with success and not initialised with success since
Lived(fn, args, r, size, deinit) ==
    /\ handle' = r.h
    /\ chip' = r.c
    /\ bus' = r.bus
    /\ ret' = FlashRet(fn, args, r.val)
    /\ calls' = IF EntersWaitBusy(fn, handle, size)
                THEN <<[fn |-> "yDev25q_WaitBusy",
                        chip_type |-> handle.chip_type]>>
                ELSE <<>>
    /\ loc' = [loc EXCEPT !.step = @ + 1, !.deinit = deinit]
    /\ UNCHANGED <<ops, scanned, ydev_time_ms>>

\* yDevInitStatic(&g_flash_config, &g_flash_handle)
Life_Init ==
    /\ loc.step < MaxLife
    /\ \E n \in {3, 4} :
        LET r == yDev_25q_Init(g_flash_config,
                               InitMatched(handle, FirstMatch(YDEV_TYPE_25Q)),
                               chip, n)
        IN  Lived("yDev_25q_Init", [pos |-> handle.address, n |-> n],
                  [h |-> r.h, c |-> chip, bus |-> r.bus, val |-> r.val], 0,
                  loc.deinit /\ r.val # YDEV_OK)

\* yDevDeinitStatic(&g_flash_handle)
Life_Deinit ==
    /\ loc.step < MaxLife
    /\ LET r == yDev_25q_Deinit(handle) IN
       Lived("yDev_25q_Deinit", [pos |-> handle.address],
             [h |-> r.h, c |-> chip, bus |-> <<>>, val |-> r.val], 0,
             loc.deinit \/ r.val = YDEV_OK)

\* yDevRead(&g_flash_handle, buffer, 1)
Life_Read ==
    /\ loc.step < MaxLife
    /\ \E oob \in OobWords :
        Lived("yDev_25q_Read", [pos |-> handle.address, size |-> 1],
              Life_ReadCall(handle, chip, 1, oob), 1, loc.deinit)

\* yDevWrite(&g_flash_handle, buffer, 10)
Life_Write ==
    /\ loc.step < MaxLife
    /\ \E uninit \in UninitBytes, oob \in OobWords :
        LET buffer == [i \in 1..10 |-> 170] IN
        Lived("yDev_25q_Write",
              [pos |-> handle.address, size |-> Len(buffer)],
              Life_WriteCall(handle, chip, buffer, uninit, oob),
              Len(buffer), loc.deinit)

\* yDevIoctl(&g_flash_handle, YDEV_25Q_IOCTL_CHIP_ERASE, NULL)
Life_ChipErase ==
    /\ loc.step < MaxLife
    /\ Lived("yDev_25q_Ioctl", [pos |-> handle.address],
             Life_EraseCall(handle, chip), 0, loc.deinit)

LifeNext ==
    \/ Life_Init \/ Life_Deinit
    \/ Life_Read \/ Life_Write \/ Life_ChipErase

SpecLife == LifeInit /\ [][LifeNext]_vars

\* C33 (as claimed): WaitBusy is never entered while the handle's chip type
\* is Unknown, so its switch never reads the known-chip table at or past
\* its length.
C33_NoWaitWhileUnknown ==
    \A i \in 1..Len(calls) :
        /\ calls[i].chip_type # YDEV_25Q_TYPE_UNKNOWN
        /\ calls[i].chip_type + 1 <= Len(IdentifyChip25q)

C37_TimeoutFromConfig ==
    (loc.at = "app" /\ ret.fn = "yDev_25q_Init" /\ ret.val = YDEV_OK)
        => handle.timeOutMs = g_flash_config.timeOutMs

\* C36 (as claimed): the driver function called by yDevRead / yDevWrite
\* receives the length the caller passed, also when it is 65536 or more.
C36_LengthPassedUnchanged ==
    (ret.fn \in {"yDevRead", "yDevWrite"} /\ calls # <<>>)
        => SizeT(calls[1].arg) = ret.args.size

\* the part of it that holds: lengths below 65536 arrive unchanged
C36_ShortLengthPassedUnchanged ==
    (ret.fn \in {"yDevRead", "yDevWrite"} /\ calls # <<>>
        /\ ret.args.size.hi = 0)
        => SizeT(calls[1].arg) = ret.args.size

\* C34 (as claimed): every address a pass of Erase places in the three
\* address bytes of its command is below 2^24, for every erase address
\* reachable under the capacity Init records for a chip of the table.
C34_AddressFitsField ==
    loc.at = "EraseLoop" => loc.current_address < AddressSpace

\* the part of it that holds: the handles whose capacity is at most 2^24
C34_AddressFitsSmallChips ==
    (loc.at = "EraseLoop" /\ handle.size <= AddressSpace)
        => loc.current_address < AddressSpace

(***************************************************************************)
(* The ring queue of yLib (yLib_ring.h, yLib_ring.c), one caller.  handle  *)
(* is the struct ylib_ring with its buffer; an element is a number, 0 for  *)
(* a slot never written.  loc keeps, in order, every element a call has    *)
(* accepted and every element a call has handed out.  The caller offers    *)
(* the elements 1, 2, 3, ... and at most MaxPut are accepted.              *)
(***************************************************************************)
MaxPut == 6

\* the sizes the ring is created with
RingSizes == {2, 4}

\* the counts the bulk calls are given
BulkCounts == 0..5

\* ylib_ring_init (yLib_ring.h:52-65)
ylib_ring_init(size) ==
    [head |-> 0, tail |-> 0, size |-> size, mask |-> size - 1,
     ring |-> [i \in 1..size |-> 0]]

\* a - b in unsigned int, for a and b below 2^16
U32Sub(a, b) ==
    IF a >= b THEN SizeT(a - b) ELSE [hi |-> U16 - 1, lo |-> U16 - (b - a)]

\* ylib_ring_count (yLib_ring.h:82-85): ring->tail - ring->head
ylib_ring_count(r) == U32Sub(r.tail, r.head)

\* ylib_ring_empty (yLib_ring.h:102-105)
ylib_ring_empty(r) == r.head = r.tail

\* ylib_ring_full (yLib_ring.h:112-115)
ylib_ring_full(r) == ylib_ring_count(r) = SizeT(r.size)

\* x & ring->mask for the unsigned value of x, mask being size - 1
RingMask(x, r) == x % r.size

\* memcpy of the first n elements of data into the slots from idx on, in
\* the one or two parts of the bulk calls
CopyIn(r, idx, data, n) ==
    IF idx + n <= r.size
    THEN [i \in 1..r.size |->
            IF i - 1 >= idx /\ i - 1 < idx + n THEN data[i - idx]
            ELSE r.ring[i]]
    ELSE LET first_part == r.size - idx IN
         [i \in 1..r.size |->
            IF i - 1 >= idx THEN data[i - idx]
            ELSE IF i - 1 < n - first_part THEN data[first_part + i]
            ELSE r.ring[i]]

\* memcpy of n elements out of the slots from idx on
CopyOut(r, idx, n) ==
    IF idx + n <= r.size
    THEN [k \in 1..n |-> r.ring[idx + k]]
    ELSE LET first_part == r.size - idx IN
         [k \in 1..n |-> IF k <= first_part THEN r.ring[idx + k]
                         ELSE r.ring[k - first_part]]

\* ylib_ring_enqueue (yLib_ring.c:107-124)
ylib_ring_enqueue(r, data) ==
    LET next_tail == RingMask(r.tail + 1, r) IN
    IF next_tail = r.head
    THEN [r |-> r, val |-> 0, out |-> <<>>]
    ELSE [r |-> [r EXCEPT !.ring[r.tail + 1] = data, !.tail = next_tail],
          val |-> 1, out |-> <<>>]

\* ylib_ring_dequeue (yLib_ring.c:133-149)
ylib_ring_dequeue(r) ==
    IF r.head = r.tail
    THEN [r |-> r, val |-> 0, out |-> <<>>]
    ELSE [r |-> [r EXCEPT !.head = RingMask(r.head + 1, r)],
          val |-> 1, out |-> <<r.ring[r.head + 1]>>]

\* ylib_ring_enqueue_bulk (yLib_ring.c:159-195), count = Len(data)
ylib_ring_enqueue_bulk(r, data) ==
    LET free_space == r.size - RingMask(r.tail - r.head, r)
        n == Min(Len(data), free_space)
        idx == RingMask(r.tail, r)
    IN  IF Len(data) = 0 \/ n = 0
        THEN [r |-> r, val |-> 0, out |-> <<>>]
        ELSE [r |-> [r EXCEPT !.ring = CopyIn(r, idx, data, n),
                              !.tail = RingMask(r.tail + n, r)],
              val |-> n, out |-> <<>>]

\* ylib_ring_dequeue_bulk (yLib_ring.c:205-241)
ylib_ring_dequeue_bulk(r, count) ==
    LET available == RingMask(r.tail - r.head, r)
        n == Min(count, available)
        idx == RingMask(r.head, r)
    IN  IF count = 0 \/ n = 0
        THEN [r |-> r, val |-> 0, out |-> <<>>]
        ELSE [r |-> [r EXCEPT !.head = RingMask(r.head + n, r)],
              val |-> n, out |-> CopyOut(r, idx, n)]

RingInit ==
    /\ ops = <<>>
    /\ \E size \in RingSizes : handle = ylib_ring_init(size)
    /\ ret = NoRet
    /\ calls = <<>>
    /\ scanned = 0
    /\ chip = NoChip
    /\ bus = <<>>
    /\ ydev_time_ms = 0
    /\ loc = [accepted |-> <<>>, removed |-> <<>>]

\* what a call leaves behind: data are the elements it was offered
RingCall(fn, data, r) ==
    /\ handle' = r.r
    /\ ret' = FlashRet(fn, Len(data), r.val)
    /\ loc' = [accepted |-> loc.accepted
                               \o SubSeq(data, 1, Min(r.val, Len(data))),
               removed |-> loc.removed \o r.out]
    /\ UNCHANGED <<ops, calls, scanned, chip, bus, ydev_time_ms>>

\* the next count elements the caller has to offer
Offer(count) == [k \in 1..count |-> Len(loc.accepted) + k]

Ring_Enqueue ==
    /\ Len(loc.accepted) < MaxPut
    /\ RingCall("ylib_ring_enqueue", Offer(1),
                ylib_ring_enqueue(handle, Offer(1)[1]))

Ring_EnqueueBulk ==
    \E count \in BulkCounts :
        /\ Len(loc.accepted) + count <= MaxPut
        /\ RingCall("ylib_ring_enqueue_bulk", Offer(count),
                    ylib_ring_enqueue_bulk(handle, Offer(count)))

Ring_Dequeue ==
    RingCall("ylib_ring_dequeue", <<>>, ylib_ring_dequeue(handle))

Ring_DequeueBulk ==
    \E count \in BulkCounts :
        RingCall("ylib_ring_dequeue_bulk", <<>>,
                 ylib_ring_dequeue_bulk(handle, count))

RingNext ==
    \/ Ring_Enqueue \/ Ring_EnqueueBulk
    \/ Ring_Dequeue \/ Ring_DequeueBulk

SpecRing == RingInit /\ [][RingNext]_vars

\* s is the beginning of t
IsPrefix(s, t) == Len(s) <= Len(t) /\ SubSeq(t, 1, Len(s)) = s

\* C38 (as claimed): ylib_ring_count is the number of elements accepted
\* minus the number removed, ylib_ring_empty holds exactly when that number
\* is 0, and the elements handed out are the accepted ones in their order,
\* each once.
C38_RingAccounting ==
    LET held == Len(loc.accepted) - Len(loc.removed) IN
    /\ held >= 0
    /\ ylib_ring_count(handle) = SizeT(held)
    /\ ylib_ring_empty(handle) <=> held = 0
    /\ IsPrefix(loc.removed, loc.accepted)

\* what the code does keep: (tail - head) & mask is the number of elements
\* held modulo the size of the ring
C38_MaskedCount ==
    RingMask(handle.tail - handle.head, handle)
        = (Len(loc.accepted) - Len(loc.removed)) % handle.size

(***************************************************************************)
(* ylib_ring_mp_enqueue and ylib_ring_mc_dequeue (yLib_ring.c:298-354)     *)
(* called from two producers and two consumers that may be switched        *)
(* between any two accesses of the ring.  The atomic operations are the    *)
(* macros of yLib_ring.c:19-49: a plain load, a plain store, and a compare *)
(* and exchange that loads, compares and stores in separate accesses.      *)
(* handle is the ring, loc[p] the locals of the call p is in, calls the    *)
(* elements the consumers have returned, in the order of their return.     *)
(* Each caller makes at most MaxMpmc calls.                                *)
(***************************************************************************)
MaxMpmc == 1

Producers == {1, 2}
Consumers == {3, 4}

\* the element producer p offers in its k-th call
Element(p, k) == 10 * p + k

NoCall == [pc |-> "idle", head |-> 0, tail |-> 0, done |-> 0]

MpmcInit ==
    /\ ops = <<>>
    /\ handle = ylib_ring_init(2)
    /\ ret = NoRet
    /\ calls = <<>>
    /\ scanned = 0
    /\ chip = NoChip
    /\ bus = <<>>
    /\ ydev_time_ms = 0
    /\ loc = [p \in Producers \cup Consumers |-> NoCall]

\* the call of p returns val
MpmcReturn(p, val) ==
    /\ loc' = [loc EXCEPT ![p] = [NoCall EXCEPT !.done = loc[p].done + 1]]
    /\ ret' = FlashRet(IF p \in Producers THEN "ylib_ring_mp_enqueue"
                       ELSE "ylib_ring_mc_dequeue", p, val)

\* the first load of a pass of the do-while loop: head in the producer
\* (line 305), head in the consumer (line 337)
Mpmc_LoadHead(p) ==
    /\ loc[p].pc \in {"idle", "retry"}
    /\ loc[p].done < MaxMpmc
    /\ loc' = [loc EXCEPT ![p].pc = "load", ![p].head = handle.head]
    /\ UNCHANGED <<ops, handle, ret, calls, scanned, chip, bus, ydev_time_ms>>

\* the second load and the full / empty test (lines 306-311, 338-342)
Mpmc_LoadTail(p) ==
    /\ loc[p].pc = "load"
    /\ LET tail == handle.tail
           stop == IF p \in Producers
                   THEN RingMask(tail + 1, handle) = loc[p].head
                   ELSE loc[p].head = tail
       IN  IF stop
           THEN MpmcReturn(p, 0)
           ELSE /\ loc' = [loc EXCEPT ![p].pc = "cas", ![p].tail = tail]
                /\ UNCHANGED ret
    /\ UNCHANGED <<ops, handle, calls, scanned, chip, bus, ydev_time_ms>>

\* ylib_atomic_compare_exchange_uint up to its test (lines 33-35, 42-43):
\* on ring->tail for a producer, on ring->head for a consumer
Cas_Load(p) ==
    /\ loc[p].pc = "cas"
    /\ LET cur == IF p \in Producers THEN handle.tail ELSE handle.head
           old == IF p \in Producers THEN loc[p].tail ELSE loc[p].head
       IN  loc' = [loc EXCEPT ![p].pc = IF cur = old THEN "store" ELSE "retry"]
    /\ UNCHANGED <<ops, handle, ret, calls, scanned, chip, bus, ydev_time_ms>>

\* *ptr = desired (line 37)
Cas_Store(p) ==
    /\ loc[p].pc = "store"
    /\ handle' = IF p \in Producers
                 THEN [handle EXCEPT !.tail = RingMask(loc[p].tail + 1, handle)]
                 ELSE [handle EXCEPT !.head = RingMask(loc[p].head + 1, handle)]
    /\ loc' = [loc EXCEPT ![p].pc = "copy"]
    /\ UNCHANGED <<ops, ret, calls, scanned, chip, bus, ydev_time_ms>>

\* some producer has claimed slot and not yet copied its element into it
Unwritten(slot) ==
    \E q \in Producers : loc[q].pc = "copy" /\ loc[q].tail = slot

\* the memcpy and the return (lines 318-320, 351-353)
Mpmc_Copy(p) ==
    /\ loc[p].pc = "copy"
    /\ IF p \in Producers
       THEN /\ handle' = [handle EXCEPT
                            !.ring[loc[p].tail + 1] = Element(p, loc[p].done + 1)]
            /\ UNCHANGED calls
       ELSE /\ calls' = Append(calls,
                           [by |-> p, slot |-> loc[p].head,
                            val |-> handle.ring[loc[p].head + 1],
                            written |-> ~Unwritten(loc[p].head)
                                        /\ handle.ring[loc[p].head + 1] # 0])
            /\ UNCHANGED handle
    /\ MpmcReturn(p, 1)
    /\ UNCHANGED <<ops, scanned, chip, bus, ydev_time_ms>>

MpmcNext ==
    \E p \in Producers \cup Consumers :
        \/ Mpmc_LoadHead(p) \/ Mpmc_LoadTail(p)
        \/ Cas_Load(p) \/ Cas_Store(p)
        \/ Mpmc_Copy(p)

SpecMpmc == MpmcInit /\ [][MpmcNext]_vars

\* two producers never hold the same slot
C39_NoSharedSlot ==
    \A p, q \in Producers :
        (p # q /\ loc[p].pc = "copy" /\ loc[q].pc = "copy")
            => loc[p].tail # loc[q].tail

\* two consumers never return the same element
C39_NoDoubleReturn ==
    \A i, j \in 1..Len(calls) :
        (i # j /\ calls[i].val # 0) => calls[i].val # calls[j].val

\* every element returned had been written by a producer when it was read
C39_ReturnsWritten ==
    \A i \in 1..Len(calls) : calls[i].written

\* C39 (as claimed): under every interleaving of ylib_ring_mp_enqueue and
\* ylib_ring_mc_dequeue calls two producers never claim the same slot, two
\* consumers never return the same element, and every element returned was
\* completely written by a producer before it was read.
C39_MpmcSafe ==
    C39_NoSharedSlot /\ C39_NoDoubleReturn /\ C39_ReturnsWritten

\* a toolchain that supplies the atomic operations as macros keeps its own
\* compare and exchange (yLib_ring.c:27): no other caller runs between its
\* load and its store
MpmcAtomicNext ==
    \E p \in Producers \cup Consumers :
        /\ \A q \in Producers \cup Consumers : loc[q].pc = "store" => q = p
        /\ \/ Mpmc_LoadHead(p) \/ Mpmc_LoadTail(p)
           \/ Cas_Load(p) \/ Cas_Store(p)
           \/ Mpmc_Copy(p)

SpecMpmcAtomic == MpmcInit /\ [][MpmcAtomicNext]_vars
====
